---- MODULE Spec2Model ----
(***************************************************************************)
(* Request orchestration of the Cody VS Code extension: ApiCache,          *)
(* ApiClient.makeRequest / executeRequest (vscode-extension/src, the       *)
(* client the extension imports), ConfigManager.loadConfiguration, and the *)
(* older ApiClient.makeRequest that is kept in the same source file.       *)
(* Around the client: the extension's configuration listener, the          *)
(* cody.generateCode command with its timeout, and project re-indexing     *)
(* (reindexProject, the file watcher's debounce timer).                    *)
(*                                                                         *)
(* JavaScript runs each job to completion, so one action is one job: the   *)
(* code between two suspension points (await of the connectivity probe,    *)
(* await of requestFn, await of the backoff timer).  The continuation of   *)
(* `await requestPromise` in makeRequest is the first reaction registered  *)
(* on that promise, and the coalesced callers' continuations follow it in  *)
(* the same microtask drain, so they belong to the job that settles        *)
(* executeRequest.                                                         *)
(***************************************************************************)
EXTENDS Integers, Sequences, FiniteSets, TLC

\* ---------------------------------------------------------------- bounds
NCalls == 2            \* makeRequest calls issued in one behaviour of Spec
RetryCalls == 1        \* calls in one behaviour of SpecRetry and SpecLegacy
NInputs == 1           \* distinct argument tuples per operation
MaxTicks == 2          \* clock advances in one behaviour
TickMs == 900000       \* one clock advance, in milliseconds
MaxConfigChanges == 1  \* ApiClient.updateConfiguration calls
MaxRaw == 6            \* largest cody.maxRetries setting tried (from -MaxRaw)
NRuns == 3             \* reindexProject() invocations in one behaviour
MaxChanges == 6        \* largest changeCount followed
MaxWaits == 4          \* half debounce periods that pass in SpecIndex
MaxParts == 3          \* parts of a reply given to the extractor
NGets == 3             \* callers of ConfigManager.getInstance
NPrompts == 2          \* different chat prompts in SpecOverlap
NChats == 2            \* handleChatMessage invocations followed
MaxCacheOps == 3       \* set, get and clear calls in one behaviour of SpecCache
NProvides == 3         \* provideCompletionItems invocations followed
QuantumMs == 25        \* one clock advance of SpecCompletion, in milliseconds
MaxQuanta == 4         \* clock advances in one behaviour of SpecCompletion
Epoch == 1000          \* Date.now() when the extension is activated

Calls == 1..NCalls
Runs == 1..NRuns
Chats == 1..NChats
Gets == 1..NGets
Provides == 1..NProvides
Inputs == 1..NInputs

\* ------------------------------------------------------ program constants
maxSize == 100                 \* ApiCache.maxSize
defaultTTL == 1800000          \* ApiCache.defaultTTL, 30 * 60 * 1000
GenerateTTL == 900000          \* generateCode: 15 * 60 * 1000
BackoffBase == 1000            \* executeRequest: 1000 * 2^(attempt-1)
maxChangesBeforeReindex == 5   \* startFileWatching
DebounceMs == 5000             \* startFileWatching: setTimeout(..., 5000)
BackoffCap == 10000            \* executeRequest: Math.min(..., 10000)
DefaultMaxRetries == 3         \* loadConfiguration: get('maxRetries') || 3
MinMaxRetries == 1             \* loadConfiguration: Math.max(1, ...)
MaxMaxRetries == 5             \* loadConfiguration: Math.min(5, ...)
DefaultRequestTimeout == 30000 \* loadConfiguration: get('requestTimeout') || 30000
MinRequestTimeout == 5000      \* loadConfiguration: Math.max(5000, ...)
MaxRequestTimeout == 60000     \* loadConfiguration: Math.min(60000, ...)
PromptCeiling == 500           \* cody.generateCode: value.length > 500
BugCeiling == 1000             \* cody.fixBug: value.length > 1000
debounceMs == 50               \* CodyCompletionProvider.debounceMs
CompletionsTTL == 300000       \* getCompletions: 5 * 60 * 1000

\* Values are records throughout, so that any two of them can be compared.
Unset == [isSet |-> FALSE, value |-> 0]    \* a setting the user has not set
Setting(n) == [isSet |-> TRUE, value |-> n]
\* The user's settings under 'cody', those that are numbers.
Settings(mr, rt) == [maxRetries |-> mr, requestTimeout |-> rt]
NoCacheKey == <<>>                         \* cacheKey === undefined
EmptyKey == <<>>                           \* the key '', no characters
NoKey == <<"no-cache">>                    \* cacheKey || 'no-cache'
NoTTL == 0                                 \* cacheTTL === undefined
NoData == [tag |-> "undefined"]            \* data === undefined
NoMessage == [msg |-> ""]                  \* error === undefined
NoError == [type |-> "undefined", status |-> 0]   \* lastError === undefined
NoOutcome == [settled |-> FALSE]           \* a promise not resolved
NoBody == [type |-> "none"]                \* no response received

VARIABLES
    now,            \* Date.now()
    config,         \* ConfigManager.config
    cfgGen,         \* number of configuration changes so far
    cache,          \* ApiCache.cache: a Map, kept in insertion order
    requestQueue,   \* ApiClient.requestQueue: requestKey -> pending promise
    call,           \* the makeRequest calls: each one's position and locals
    ret,            \* the last call made on an ApiCache directly, and its value
    command,        \* the cody.generateCode command that made call c: its state
    prompt,         \* the input box of that command: whose it is, and the
                    \* value in it when Enter was pressed last
    isIndexing,     \* extension.ts: let isIndexing
    changeCount,    \* startFileWatching: let changeCount
    reindexTimeout, \* startFileWatching: let reindexTimeout, the handle of
                    \* the timer created last, named by its deadline
    timers,         \* the pending debounce timers, by deadline
    seen,           \* the watcher event handled last: its path, and whether
                    \* an odd number of events has been handled
    run,            \* the reindexProject() invocations: each one's position
    chatHistory,    \* let chatHistory: the messages it holds, by reference
    msgs,           \* the ChatMessageInternal objects created, in order
    chat,           \* the handleChatMessage() invocations: each one's position
    written,        \* the edits applyCodeEdits has applied: each one's
                    \* edit.file and the path of the file written
    rawResponse,    \* the model's reply given to the Code-Edit Extractor
    extraction,     \* what the extractor returned for it
    instance,       \* ConfigManager.instance: the ConfigManager it refers to
    constructed,    \* the ConfigManagers constructed so far
    got,            \* what each caller of getInstance() got last
    lastRequestTime, \* CodyCompletionProvider.lastRequestTime
    items           \* the provideCompletionItems() invocations: when each
                    \* was made, whether it passed the debounce check and
                    \* whether it called apiClient.getCompletions

\* What lies outside the ApiClient.
cacheUserVars == <<ret>>
commandVars == <<command, prompt>>
indexVars == <<isIndexing, changeCount, reindexTimeout, timers, seen, run>>
chatVars == <<chatHistory, msgs, chat, written>>
extractVars == <<rawResponse, extraction>>
singletonVars == <<instance, constructed, got>>
completionVars == <<lastRequestTime, items>>
otherVars == <<extractVars, singletonVars, completionVars>>
extVars == <<cacheUserVars, commandVars, indexVars, chatVars, otherVars>>
clientVars == <<now, config, cfgGen, cache, requestQueue, call>>

vars == <<now, config, cfgGen, cache, requestQueue, call, ret, command, prompt,
          isIndexing, changeCount, reindexTimeout, timers, seen, run,
          chatHistory, msgs, chat, written, rawResponse, extraction,
          instance, constructed, got, lastRequestTime, items>>

\* ------------------------------------------------------------ arithmetic
Min(a, b) == IF a <= b THEN a ELSE b
Max(a, b) == IF a >= b THEN a ELSE b

RECURSIVE Pow2(_)
Pow2(n) == IF n <= 0 THEN 1 ELSE 2 * Pow2(n - 1)

\* --------------------------------------------------------- ConfigManager
\* The cody.maxRetries setting as the user wrote it (a number, or not set).
RawSettings ==
    {Settings(mr, Unset) : mr \in {Unset} \cup {Setting(n) : n \in (0 - MaxRaw)..MaxRaw}}
\* The settings tried where the retry loop is not what is examined.
FewSettings == {Settings(Setting(1), Unset), Settings(Setting(2), Unset)}
\* The settings tried on the loaders themselves: both settings absent, zero,
\* negative, and at, next to and far from the limits.
TimeoutSettings ==
    {Unset} \cup {Setting(n) : n \in {0 - 1, 0, 1, MinRequestTimeout - 1,
                                      MinRequestTimeout, MinRequestTimeout + 1,
                                      DefaultRequestTimeout, MaxRequestTimeout - 1,
                                      MaxRequestTimeout, MaxRequestTimeout + 1}}
AllSettings == {Settings(r.maxRetries, t) : r \in RawSettings, t \in TimeoutSettings}

\* config.get<number>('maxRetries') || 3
OrDefault(raw, dflt) ==
    IF ~raw.isSet \/ raw.value = 0 THEN dflt ELSE raw.value

\* The older ConfigManager.loadConfiguration: no clamping.
LegacyLoadConfiguration(raw) ==
    [maxRetries |-> OrDefault(raw.maxRetries, DefaultMaxRetries),
     requestTimeout |-> OrDefault(raw.requestTimeout, DefaultRequestTimeout)]

\* ConfigManager.loadConfiguration: Math.max(1, Math.min(5, raw || 3)) and
\* Math.max(5000, Math.min(60000, raw || 30000))
LoadConfiguration(raw) ==
    [maxRetries |->
         Max(MinMaxRetries,
             Min(MaxMaxRetries, OrDefault(raw.maxRetries, DefaultMaxRetries))),
     requestTimeout |->
         Max(MinRequestTimeout,
             Min(MaxRequestTimeout,
                 OrDefault(raw.requestTimeout, DefaultRequestTimeout)))]

\* ---------------------------------------------------------------- ApiCache
\* An entry of the Map together with its key.
CacheEntry(key, data, timestamp, ttl) ==
    [key |-> key, data |-> data, timestamp |-> timestamp, ttl |-> ttl]

CacheIndex(c, key) ==
    IF \E i \in 1..Len(c) : c[i].key = key
    THEN CHOOSE i \in 1..Len(c) : c[i].key = key
    ELSE 0

RemoveAt(c, i) == [j \in 1..(Len(c) - 1) |-> IF j < i THEN c[j] ELSE c[j + 1]]

\* (mutant: an entry expires already when its age reaches its ttl)
CacheGetExpiresAtTTL(c, key, t) ==
    IF \E i \in 1..Len(c) : c[i].key = key /\ t - c[i].timestamp < c[i].ttl
    THEN (CHOOSE e \in {c[i] : i \in 1..Len(c)} : e.key = key).data
    ELSE NoOutcome

\* (mutant: sliding expiration, a read restarts the entry's time to live)
CacheAfterGetRefreshes(c, key, t) ==
    [i \in 1..Len(c) |->
        IF c[i].key = key /\ t - c[i].timestamp <= c[i].ttl
        THEN [c[i] EXCEPT !.timestamp = t] ELSE c[i]]

\* (mutant: the lookup never finds the entry)
CacheGetAlwaysMiss(c, key, t) == NoOutcome

\* ApiCache.get: the value returned ...

CacheGet(c, key, t) ==
    LET i == CacheIndex(c, key) IN
    IF i = 0 THEN NoOutcome
    ELSE IF t - c[i].timestamp > c[i].ttl THEN NoOutcome
    ELSE c[i].data

\* ... and the Map it leaves behind (an expired entry is deleted).
CacheAfterGet(c, key, t) ==
    LET i == CacheIndex(c, key) IN
    IF i = 0 THEN c
    ELSE IF t - c[i].timestamp > c[i].ttl THEN RemoveAt(c, i)
    ELSE c

\* ApiCache.set: when full, delete the first key `if (firstKey)`, that is
\* unless it is the empty string; then Map.set (which keeps the position of
\* a key that is still present and appends a new one).
CacheSet(c, key, data, ttl, t) ==
    LET ttl1 == IF ttl = NoTTL THEN defaultTTL ELSE ttl
        c1 == IF Len(c) >= maxSize /\ Head(c).key # EmptyKey
              THEN Tail(c) ELSE c
        i == CacheIndex(c1, key)
        e == CacheEntry(key, data, t, ttl1)
    IN IF i = 0 THEN Append(c1, e) ELSE [c1 EXCEPT ![i] = e]

\* ApiCache.clear
CacheClear(c) == <<>>

\* ---------------------------------------------------------------- requests
\* (mutant: generateCode passes no cacheTTL)
GenerateCodeDefaultTTL(i) ==
    [op |-> "Generate Code", input |-> i,
     cacheKey |-> <<i, "generate">>, cacheTTL |-> NoTTL]

\* generateCode(prompt, language, context): cached for 15 minutes under
\* JSON.stringify([prompt, language, context, 'generate']).
GenerateCode(i) ==
    [op |-> "Generate Code", input |-> i,
     cacheKey |-> <<i, "generate">>, cacheTTL |-> GenerateTTL]

\* fixBug(code, errorMessage, language): cached for 30 minutes.
FixBug(i) ==
    [op |-> "Fix Bug", input |-> i,
     cacheKey |-> <<i, "fix-bug">>, cacheTTL |-> defaultTTL]

\* chat(prompt, language, context, history, currentFile): no cacheKey.
Chat(i) ==
    [op |-> "Chat", input |-> i, cacheKey |-> NoCacheKey, cacheTTL |-> NoTTL]

\* getCompletions(context, languageId, linePrefix): cached for 5 minutes.
Completions(i) ==
    [op |-> "Get Completions", input |-> i,
     cacheKey |-> <<i, "completions">>, cacheTTL |-> CompletionsTTL]

NoRequest == [op |-> "", input |-> 0, cacheKey |-> NoCacheKey, cacheTTL |-> NoTTL]

Requests == {GenerateCode(i) : i \in Inputs} \cup {Chat(i) : i \in Inputs}

\* Chat calls that differ in their prompt.
ChatRequests == {Chat(i) : i \in 1..NPrompts}

\* `${operation}-${cacheKey || 'no-cache'}`
RequestKey(r) ==
    <<r.op, IF r.cacheKey = NoCacheKey THEN NoKey ELSE r.cacheKey>>

\* ------------------------------------------------- responses and outcomes
\* What requestFn can resolve with (response.data) for a request with input i.
EnvelopeOk(i) ==
    [type |-> "object", hasSuccess |-> TRUE, success |-> TRUE,
     data |-> [tag |-> "data", input |-> i], error |-> NoMessage]
EnvelopeFail ==
    [type |-> "object", hasSuccess |-> TRUE, success |-> FALSE,
     data |-> NoData, error |-> [msg |-> "backend error"]]
EnvelopeFailNoError ==
    [type |-> "object", hasSuccess |-> TRUE, success |-> FALSE,
     data |-> NoData, error |-> NoMessage]
RawObject(i) ==
    [type |-> "object", hasSuccess |-> FALSE, success |-> FALSE,
     data |-> [tag |-> "raw", input |-> i], error |-> NoMessage]
RawText(i) ==
    [type |-> "string", hasSuccess |-> FALSE, success |-> FALSE,
     data |-> [tag |-> "text", input |-> i], error |-> NoMessage]
NullBody ==
    [type |-> "null", hasSuccess |-> FALSE, success |-> FALSE,
     data |-> NoData, error |-> NoMessage]

Bodies(i) == {EnvelopeOk(i), EnvelopeFail, EnvelopeFailNoError,
              RawObject(i), RawText(i), NullBody}
AllBodies == UNION {Bodies(i) : i \in Inputs}
\* The responses tried where the response shape is not what is examined.
FewBodies == {EnvelopeOk(i) : i \in Inputs} \cup {EnvelopeFail}

\* What requestFn can reject with.
Statuses == {400, 404, 429, 499, 500, 503}
HttpError(s) == [type |-> "response", status |-> s]
NetworkError == [type |-> "request", status |-> 0]
OtherError == [type |-> "other", status |-> 0]
Errors == {HttpError(s) : s \in Statuses} \cup {NetworkError, OtherError}
FewErrors == {HttpError(404), HttpError(503)}

\* ApiResponse<T>; gen is bookkeeping: the configuration generation under
\* which the request that produced the outcome was sent.
Success(data, gen) ==
    [success |-> TRUE, data |-> data, error |-> NoMessage, gen |-> gen]
Failure(error, gen) ==
    [success |-> FALSE, data |-> NoData, error |-> error, gen |-> gen]

CannotConnect == [msg |-> "Cannot connect to Cody backend"]
BackendRequestFailed == [msg |-> "Backend request failed"]

\* (mutant: the envelope is not unwrapped)
NormalizeNoUnwrap(body, gen) == Success(body, gen)

\* executeRequest, the branch after `await requestFn()` resolved.

Normalize(body, gen) ==
    IF body.type = "object" /\ body.hasSuccess
    THEN IF body.success
         THEN Success(body.data, gen)
         ELSE Failure(IF body.error = NoMessage THEN BackendRequestFailed
                      ELSE body.error, gen)
    ELSE Success(body, gen)

\* (mutant: 429 not excepted)
IsNonRetryableErrorNo429(error) ==
    /\ error.type = "response"
    /\ error.status >= 400 /\ error.status < 500

\* ApiClient.isNonRetryableError

IsNonRetryableError(error) ==
    /\ error.type = "response"
    /\ error.status >= 400 /\ error.status < 500 /\ error.status # 429

\* (mutant: the status left out of the HTTP message)
GetErrorMessageNoStatus(error) ==
    IF error.type = "response" THEN [msg |-> "HTTP", status |-> 0]
    ELSE IF error.type = "request"
         THEN [msg |-> "Network error: No response received from server"]
         ELSE [msg |-> "Request error"]

\* ApiClient.getErrorMessage: the fixed prefix of the text and, for an HTTP
\* error, the status printed after it.
GetErrorMessage(error) ==
    IF error.type = "response" THEN [msg |-> "HTTP", status |-> error.status]
    ELSE IF error.type = "request"
         THEN [msg |-> "Network error: No response received from server"]
         ELSE [msg |-> "Request error"]

\* executeRequest: Math.min(1000 * Math.pow(2, attempt - 1), 10000)
Backoff(attempt) == Min(BackoffBase * Pow2(attempt - 1), BackoffCap)

\* The older makeRequest: this.sleep(Math.pow(2, attempt) * 1000)
LegacyBackoff(attempt) == Pow2(attempt) * BackoffBase


\* ------------------------------------------------------------------ state
\* A call's locals.  Bookkeeping: nReq counts its requestFn invocations, body
\* is the response it normalized, via is the path it returned by ("cache",
\* "coalesced", "probe", "network"), overlap is a call for the same request
\* key that was in progress when this one started (0: none).  The locals of
\* executeRequest die when the call returns: Returned keeps the request, the
\* value returned and the bookkeeping; in lastError it keeps the error that
\* ended the call, if one did.
IdleCall ==
    [pc |-> "idle", req |-> NoRequest, maxRetries |-> 0, attempt |-> 0,
     nReq |-> 0, lastError |-> NoError, delay |-> 0, waitOn |-> 0,
     out |-> NoOutcome, sentGen |-> 0, body |-> NoBody, via |-> "",
     overlap |-> 0]

Returned(cl, o, via) ==
    [IdleCall EXCEPT !.pc = IF o = NoOutcome THEN "rejected" ELSE "done",
                     !.req = cl.req, !.nReq = cl.nReq, !.out = o,
                     !.body = cl.body, !.via = via, !.overlap = cl.overlap,
                     !.lastError = cl.lastError]

\* let reindexTimeout: NodeJS.Timeout, not yet assigned.
NoTimer == 0 - 1

\* A string entered in an input box: its length and whether value.trim() is
\* empty.
Text(len, blank) == [len |-> len, blank |-> blank]

\* No input box shown yet.
NoInputBox == [kind |-> "none", value |-> Text(0, TRUE)]

\* validateInput returns null.
Null == [msg |-> "null"]

\* A handleChatMessage() invocation not yet made: msg is the assistant's
\* message it created and user the user's (0: none), edits the code edits it
\* has still to apply, results the `results` of applyCodeEdits (success).
IdleChat == [pc |-> "idle", user |-> 0, msg |-> 0, edits |-> <<>>,
             results |-> <<>>]

\* A provideCompletionItems() invocation not yet made.
NoProvide == [done |-> FALSE, at |-> 0, passed |-> FALSE, issued |-> FALSE]

\* ConfigManager.instance === undefined
NoInstance == 0

\* The extractor has not run.
NoExtraction == [done |-> FALSE]

\* No ApiCache call made yet.
NoRet == [op |-> "none", key |-> NoCacheKey, value |-> NoOutcome, n |-> 0]

\* ConfigManager.getInstance() has been called once, by activate().
InitSingleton ==
    /\ instance = 1
    /\ constructed = 1
    /\ got = [k \in Gets |-> NoInstance]

InitExtension ==
    /\ ret = NoRet
    /\ command = [c \in Calls |-> "none"]
    /\ prompt = [c \in Calls |-> NoInputBox]
    /\ isIndexing = FALSE
    /\ changeCount = 0
    /\ reindexTimeout = NoTimer
    /\ timers = {}
    /\ seen = [path |-> <<>>, odd |-> FALSE]
    /\ run = [i \in Runs |-> "idle"]
    /\ chatHistory = <<>>
    /\ msgs = <<>>
    /\ chat = [h \in Chats |-> IdleChat]
    /\ written = {}
    /\ lastRequestTime = 0
    /\ items = [p \in Provides |-> NoProvide]

InitExt ==
    /\ InitExtension
    /\ InitSingleton
    /\ rawResponse = <<>>
    /\ extraction = NoExtraction

InitWith(settings) ==
    /\ InitExt
    /\ now = 0
    /\ \E raw \in settings : config = LoadConfiguration(raw)
    /\ cfgGen = 0
    /\ cache = <<>>
    /\ requestQueue = {}
    /\ call = [c \in Calls |-> IdleCall]

\* The Map requestQueue as its set of <<requestKey, promise>> entries; a
\* promise is named by the call whose executeRequest created it.
QueueHas(q, key) == \E e \in q : e[1] = key
QueueGet(q, key) == (CHOOSE e \in q : e[1] = key)[2]
QueueDelete(q, key) == {e \in q : e[1] # key}
QueueSet(q, key, p) == QueueDelete(q, key) \cup {<<key, p>>}

\* The calls for request key `key` that have started and not yet returned.
InProgress(key) ==
    {d \in Calls : /\ call[d].pc \in {"probe", "exec", "sleep", "wait"}
                   /\ RequestKey(call[d].req) = key}

\* Calls are interchangeable, so they are issued in the order of their index.
MayStart(c) ==
    call[c].pc = "idle" /\ (IF c = 1 THEN TRUE ELSE call[c - 1].pc # "idle")

\* -------------------------------------------------- ApiClient.makeRequest
\* makeRequest from its entry to its first suspension point or return:
\* cache lookup, deduplication lookup, start of the connectivity probe.
StartRequest(c, r) ==
    /\ MayStart(c)
    /\ LET cached == IF r.cacheKey = NoCacheKey THEN NoOutcome
                     ELSE CacheGet(cache, r.cacheKey, now)
           others == InProgress(RequestKey(r))
           started == [call[c] EXCEPT
                          !.req = r,
                          !.maxRetries = config.maxRetries,
                          !.overlap = IF others = {} THEN 0
                                      ELSE CHOOSE d \in others :
                                               \A e \in others : d <= e]
       IN
       /\ cache' = IF r.cacheKey = NoCacheKey THEN cache
                   ELSE CacheAfterGet(cache, r.cacheKey, now)
       /\ IF cached # NoOutcome
          THEN call' = [call EXCEPT ![c] = Returned(started, cached, "cache")]
          ELSE IF QueueHas(requestQueue, RequestKey(r))
          THEN call' = [call EXCEPT ![c] =
                            [started EXCEPT !.pc = "wait",
                                 !.waitOn =
                                     QueueGet(requestQueue, RequestKey(r))]]
          ELSE call' = [call EXCEPT ![c] = [started EXCEPT !.pc = "probe"]]
    /\ UNCHANGED <<now, config, cfgGen, requestQueue>>

\* A makeRequest call by a caller the model does not follow.
MakeRequest(c, r) == StartRequest(c, r) /\ UNCHANGED extVars

\* (mutant: the result's success flag not looked at)
ShouldCacheAnyResult(o, r) == r.cacheKey # NoCacheKey

\* makeRequest: `if (result.success && cacheKey)`

ShouldCache(o, r) == o.success /\ r.cacheKey # NoCacheKey

\* (mutant: makeRequest without its `finally`)
SettleKeepsEntry(c, o, body, error) ==
    LET r == call[c].req IN
    /\ cache' = IF o # NoOutcome /\ ShouldCache(o, r)
                THEN CacheSet(cache, r.cacheKey, o, r.cacheTTL, now)
                ELSE cache
    /\ requestQueue' = requestQueue
    /\ call' = [d \in Calls |->
                  IF d = c
                  THEN Returned([call[c] EXCEPT !.body = body,
                                                !.lastError = error],
                                o, "network")
                  ELSE IF call[d].pc = "wait" /\ call[d].waitOn = c
                  THEN Returned([call[d] EXCEPT !.lastError = NoError],
                                o, "coalesced")
                  ELSE call[d]]

\* The settlement of call c's executeRequest promise with outcome o (or its
\* rejection, o = NoOutcome) after response body (NoBody after an error) or
\* after the caught error (NoError after a response), and
\* what follows in the same job: makeRequest's cache.set and `finally`, then
\* the continuations of the coalesced callers.
Settle(c, o, body, error) ==
    LET r == call[c].req IN
    /\ cache' = IF o # NoOutcome /\ ShouldCache(o, r)
                THEN CacheSet(cache, r.cacheKey, o, r.cacheTTL, now)
                ELSE cache
    /\ requestQueue' = QueueDelete(requestQueue, RequestKey(r))
    /\ call' = [d \in Calls |->
                  IF d = c
                  THEN Returned([call[c] EXCEPT !.body = body,
                                                !.lastError = error],
                                o, "network")
                  ELSE IF call[d].pc = "wait" /\ call[d].waitOn = c
                  THEN Returned([call[d] EXCEPT !.lastError = NoError],
                                o, "coalesced")
                  ELSE call[d]]

\* (mutant: the in-flight entry is registered before the probe's answer is
\* looked at, and left behind when the backend is unreachable)
ProbeDoneRegisterFirst(c, isConnected) ==
    /\ call[c].pc = "probe"
    /\ requestQueue' = QueueSet(requestQueue, RequestKey(call[c].req), c)
    /\ IF ~isConnected
       THEN call' = [call EXCEPT ![c] =
                    Returned(call[c], Failure(CannotConnect, cfgGen), "probe")]
       ELSE call' = [call EXCEPT ![c].pc = "exec", ![c].attempt = 1,
                                 ![c].nReq = 1, ![c].sentGen = cfgGen]
    /\ UNCHANGED <<now, config, cfgGen, cache>>
    /\ UNCHANGED extVars

\* The connectivity probe answers.  Unreachable: makeRequest returns.
\* Reachable: executeRequest runs up to its first `await requestFn()`, and
\* makeRequest registers the promise and awaits it.  With maxRetries < 1 the
\* loop body never runs and getErrorMessage(undefined) throws.
ProbeDone(c, isConnected) ==
    /\ call[c].pc = "probe"
    /\ IF ~isConnected
       THEN /\ call' = [call EXCEPT ![c] =
                    Returned(call[c], Failure(CannotConnect, cfgGen), "probe")]
            /\ UNCHANGED <<cache, requestQueue>>
       ELSE IF 1 <= call[c].maxRetries
       THEN /\ call' = [call EXCEPT ![c].pc = "exec", ![c].attempt = 1,
                                    ![c].nReq = 1, ![c].sentGen = cfgGen]
            /\ requestQueue' =
                    QueueSet(requestQueue, RequestKey(call[c].req), c)
            /\ UNCHANGED cache
       ELSE Settle(c, NoOutcome, NoBody, NoError)
    /\ UNCHANGED <<now, config, cfgGen>>
    /\ UNCHANGED extVars

\* (mutant: an envelope with success: false is retried like a thrown error)
RespondRetriesFailure(c, body) ==
    /\ call[c].pc = "exec"
    /\ body \in Bodies(call[c].req.input)
    /\ IF ~Normalize(body, call[c].sentGen).success
          /\ call[c].attempt < call[c].maxRetries
       THEN /\ call' = [call EXCEPT ![c].pc = "sleep",
                                    ![c].body = body,
                                    ![c].lastError = OtherError,
                                    ![c].delay = Backoff(call[c].attempt)]
            /\ UNCHANGED <<cache, requestQueue>>
       ELSE Settle(c, Normalize(body, call[c].sentGen), body, NoError)
    /\ UNCHANGED <<now, config, cfgGen>>
    /\ UNCHANGED extVars

\* requestFn resolved with response.data = body.
Respond(c, body) ==
    /\ call[c].pc = "exec"
    /\ body \in Bodies(call[c].req.input)
    /\ Settle(c, Normalize(body, call[c].sentGen), body, NoError)
    /\ UNCHANGED <<now, config, cfgGen>>
    /\ UNCHANGED extVars

\* (mutant: the last attempt, too, is followed by a sleep and another attempt)
FailOneMore(c, error) ==
    /\ call[c].pc = "exec"
    /\ IF IsNonRetryableError(error)
       THEN Settle(c, Failure(GetErrorMessage(error), call[c].sentGen),
                   NoBody, error)
       ELSE IF call[c].attempt <= call[c].maxRetries
       THEN /\ call' = [call EXCEPT ![c].pc = "sleep",
                                    ![c].lastError = error,
                                    ![c].delay = Backoff(call[c].attempt)]
            /\ UNCHANGED <<cache, requestQueue>>
       ELSE Settle(c, Failure(GetErrorMessage(error), call[c].sentGen),
                   NoBody, error)
    /\ UNCHANGED <<now, config, cfgGen>>
    /\ UNCHANGED extVars

\* requestFn rejected with error: the catch block of executeRequest.
Fail(c, error) ==
    /\ call[c].pc = "exec"
    /\ IF IsNonRetryableError(error)
       THEN Settle(c, Failure(GetErrorMessage(error), call[c].sentGen),
                   NoBody, error)
       ELSE IF call[c].attempt < call[c].maxRetries
       THEN /\ call' = [call EXCEPT ![c].pc = "sleep",
                                    ![c].lastError = error,
                                    ![c].delay = Backoff(call[c].attempt)]
            /\ UNCHANGED <<cache, requestQueue>>
       ELSE Settle(c, Failure(GetErrorMessage(error), call[c].sentGen),
                   NoBody, error)
    /\ UNCHANGED <<now, config, cfgGen>>
    /\ UNCHANGED extVars

\* The backoff timer fires: the loop's next iteration calls requestFn, which
\* reads this.client at that moment.
Wake(c) ==
    /\ call[c].pc = "sleep"
    /\ call' = [call EXCEPT ![c].pc = "exec",
                            ![c].attempt = call[c].attempt + 1,
                            ![c].nReq = call[c].nReq + 1,
                            ![c].delay = 0,
                            ![c].sentGen = cfgGen]
    /\ UNCHANGED <<now, config, cfgGen, cache, requestQueue>>
    /\ UNCHANGED extVars

\* ApiClient.updateConfiguration, after the user changed the settings.
UpdateConfiguration(raw) ==
    /\ cfgGen < MaxConfigChanges
    /\ config' = LoadConfiguration(raw)
    /\ cfgGen' = cfgGen + 1
    /\ cache' = CacheClear(cache)
    /\ UNCHANGED <<now, requestQueue, call>>
    /\ UNCHANGED extVars

\* The older ConfigManager.updateConfiguration: the configuration is loaded
\* again.
LegacyUpdateConfiguration(raw) ==
    /\ cfgGen < MaxConfigChanges
    /\ config' = LegacyLoadConfiguration(raw)
    /\ cfgGen' = cfgGen + 1
    /\ UNCHANGED <<now, cache, requestQueue, call>>
    /\ UNCHANGED extVars

\* The listener registered by registerConfigurationListener, run for a change
\* that affects 'cody': ConfigManager.updateConfiguration reloads the
\* configuration.  ApiClient.updateConfiguration is not called: the cache and
\* the axios instance stay as they are.
OnDidChangeConfiguration(raw) ==
    /\ cfgGen < MaxConfigChanges
    /\ config' = LoadConfiguration(raw)
    /\ cfgGen' = cfgGen + 1
    /\ UNCHANGED <<now, cache, requestQueue, call>>
    /\ UNCHANGED extVars

\* Time passes.
Tick ==
    /\ now < MaxTicks * TickMs
    /\ now' = now + TickMs
    /\ UNCHANGED <<config, cfgGen, cache, requestQueue, call>>
    /\ UNCHANGED extVars

\* ------------------------------------------ ApiCache used on its own
\* Keys and the value given to the cache: the empty string, the first key of
\* a cache filled in order and two keys it does not hold; a value other than
\* the one a filled cache holds.
KeyOf(i) == IF i = 0 THEN EmptyKey ELSE <<i, "generate">>
CacheKeys == {KeyOf(i) : i \in {0, 1, maxSize, maxSize + 1}}
CacheValues == {Success([tag |-> "data", input |-> 2], 0)}
CacheTTLs == {NoTTL, GenerateTTL}

\* The Map after n set calls at time 0 with the keys KeyOf(first),
\* KeyOf(first + 1), ..., n <= maxSize.
Filled(first, n) ==
    [i \in 1..n |-> CacheEntry(KeyOf(first + i - 1),
                               Success([tag |-> "data", input |-> 1], 0),
                               0, GenerateTTL)]

Set(key, data, ttl) ==
    /\ ret.n < MaxCacheOps
    /\ cache' = CacheSet(cache, key, data, ttl, now)
    /\ ret' = [op |-> "set", key |-> key, value |-> data, n |-> ret.n + 1]
    /\ UNCHANGED <<now, config, cfgGen, requestQueue, call>>
    /\ UNCHANGED <<commandVars, indexVars, chatVars, otherVars>>

Get(key) ==
    /\ ret.n < MaxCacheOps
    /\ cache' = CacheAfterGet(cache, key, now)
    /\ ret' = [op |-> "get", key |-> key,
               value |-> CacheGet(cache, key, now), n |-> ret.n + 1]
    /\ UNCHANGED <<now, config, cfgGen, requestQueue, call>>
    /\ UNCHANGED <<commandVars, indexVars, chatVars, otherVars>>

Clear ==
    /\ ret.n < MaxCacheOps
    /\ cache' = CacheClear(cache)
    /\ ret' = [op |-> "clear", key |-> NoCacheKey, value |-> NoOutcome,
               n |-> ret.n + 1]
    /\ UNCHANGED <<now, config, cfgGen, requestQueue, call>>
    /\ UNCHANGED <<commandVars, indexVars, chatVars, otherVars>>

\* ------------------------------------- the cody.generateCode command
\* The handler up to `await Promise.race([apiClient.generateCode(...),
\* timeout])`: generateCode runs makeRequest to its first suspension point.
GenerateCodeCommand(c, i) ==
    /\ StartRequest(c, GenerateCode(i))
    /\ command' = [command EXCEPT ![c] = "racing"]
    /\ UNCHANGED <<prompt, cacheUserVars, indexVars, chatVars, otherVars>>

\* The strings entered: the empty one, a space, and strings that are not
\* blank with as many characters as a ceiling allows and with one more.
Texts ==
    {Text(0, TRUE), Text(1, TRUE)} \cup
    {Text(n, FALSE) : n \in {PromptCeiling, PromptCeiling + 1,
                             BugCeiling, BugCeiling + 1}}

Ceiling(kind) == IF kind = "generate" THEN PromptCeiling ELSE BugCeiling

\* (mutant: the length is not validated)
ValidateInputNoCeiling(kind, value) ==
    IF value.blank THEN [msg |-> "Please enter"] ELSE Null

\* validateInput of the command's showInputBox.
ValidateInput(kind, value) ==
    IF value.blank THEN [msg |-> "Please enter"]
    ELSE IF value.len > Ceiling(kind) THEN [msg |-> "too long"]
    ELSE Null

\* The cody.generateCode or cody.fixBug command up to `await showInputBox`.
ShowInputBox(c, kind) ==
    /\ command[c] = "none"
    /\ call[c].pc = "idle"
    /\ IF c = 1 THEN TRUE ELSE command[c - 1] # "none"
    /\ command' = [command EXCEPT ![c] = "input"]
    /\ prompt' = [prompt EXCEPT ![c] = [kind |-> kind, value |-> Text(0, TRUE)]]
    /\ UNCHANGED <<clientVars, cacheUserVars, indexVars, chatVars, otherVars>>

\* Enter is pressed with value in the box.  The box stays open while
\* validateInput returns a message; else the command resumes with the value,
\* returns if it is empty, and otherwise goes on to
\* `await Promise.race([apiClient.generateCode or fixBug(...), timeout])`.
AcceptInput(c, value, i) ==
    /\ command[c] = "input"
    /\ prompt' = [prompt EXCEPT ![c].value = value]
    /\ IF ValidateInput(prompt[c].kind, value) # Null
       THEN UNCHANGED <<command, clientVars>>
       ELSE IF value.len = 0
       THEN command' = [command EXCEPT ![c] = "returned"] /\ UNCHANGED clientVars
       ELSE /\ StartRequest(c, IF prompt[c].kind = "generate"
                               THEN GenerateCode(i) ELSE FixBug(i))
            /\ command' = [command EXCEPT ![c] = "racing"]
    /\ UNCHANGED <<cacheUserVars, indexVars, chatVars, otherVars>>

\* Escape is pressed: showInputBox resolves with undefined and the command
\* returns.
DismissInput(c) ==
    /\ command[c] = "input"
    /\ command' = [command EXCEPT ![c] = "returned"]
    /\ UNCHANGED <<prompt, clientVars, cacheUserVars, indexVars, chatVars>>
    /\ UNCHANGED otherVars

\* (mutant: the timer's firing aborts the request)
CommandTimeoutAborts(c) ==
    /\ command[c] = "racing"
    /\ call[c].pc \notin {"idle", "done", "rejected"}
    /\ command' = [command EXCEPT ![c] = "timeout"]
    /\ call' = [call EXCEPT ![c] =
                  Returned(call[c], Failure([msg |-> "Request timeout"], cfgGen),
                           "aborted")]
    /\ requestQueue' = QueueDelete(requestQueue, RequestKey(call[c].req))
    /\ UNCHANGED <<now, config, cfgGen, cache>>
    /\ UNCHANGED <<prompt, cacheUserVars, indexVars, chatVars, otherVars>>

\* The 30000 ms timer of the race fires before generateCode has settled: the
\* race rejects with 'Request timeout', which the handler rethrows and
\* registerCommand shows as an error.  Nothing is done to the request.
CommandTimeout(c) ==
    /\ command[c] = "racing"
    /\ call[c].pc \notin {"idle", "done", "rejected"}
    /\ command' = [command EXCEPT ![c] = "timeout"]
    /\ UNCHANGED <<clientVars, prompt, cacheUserVars, indexVars, chatVars>>
    /\ UNCHANGED otherVars

\* generateCode settled first: the handler goes on with the response.
CommandResume(c, cancelled) ==
    /\ command[c] = "racing"
    /\ call[c].pc \in {"done", "rejected"}
    /\ command' = [command EXCEPT ![c] =
                      IF call[c].pc = "rejected" THEN "failure"
                      ELSE IF cancelled THEN "cancelled"
                      ELSE IF call[c].out.success /\ call[c].out.data # NoData
                      THEN "success"
                      ELSE "failure"]
    /\ UNCHANGED <<clientVars, prompt, cacheUserVars, indexVars, chatVars>>
    /\ UNCHANGED otherVars

\* ------------------------------------------------ project re-indexing
\* A file path is its sequence of characters.
LowerCase == <<"a", "b", "c", "d", "e", "f", "g", "h", "i", "j", "k", "l", "m",
               "n", "o", "p", "q", "r", "s", "t", "u", "v", "w", "x", "y", "z">>
UpperCase == <<"A", "B", "C", "D", "E", "F", "G", "H", "I", "J", "K", "L", "M",
               "N", "O", "P", "Q", "R", "S", "T", "U", "V", "W", "X", "Y", "Z">>
ToLower(ch) ==
    IF \E i \in 1..26 : UpperCase[i] = ch
    THEN LowerCase[CHOOSE i \in 1..26 : UpperCase[i] = ch]
    ELSE ch

\* js|ts|py|java|cpp|c|h|go|rs|php|rb|swift|kt
CodeExtensions ==
    {<<"j", "s">>, <<"t", "s">>, <<"p", "y">>, <<"j", "a", "v", "a">>,
     <<"c", "p", "p">>, <<"c">>, <<"h">>, <<"g", "o">>, <<"r", "s">>,
     <<"p", "h", "p">>, <<"r", "b">>, <<"s", "w", "i", "f", "t">>,
     <<"k", "t">>}

EndsWithDot(path, ext) ==
    /\ Len(path) >= Len(ext) + 1
    /\ path[Len(path) - Len(ext)] = "."
    /\ \A j \in 1..Len(ext) : ToLower(path[Len(path) - Len(ext) + j]) = ext[j]

\* (mutant: every file counts)
IsCodeFileAlways(path) == TRUE

\* /\.(js|ts|...|kt)$/i.test(filePath)
IsCodeFile(path) == \E ext \in CodeExtensions : EndsWithDot(path, ext)

\* The paths the watcher reports: a.ts, a.TS, a.tsx, a.md, a.c, ts.
Paths ==
    {<<"a", ".", "t", "s">>, <<"a", ".", "T", "S">>,
     <<"a", ".", "t", "s", "x">>, <<"a", ".", "m", "d">>,
     <<"a", ".", "c">>, <<"t", "s">>}

\* The invocation of reindexProject() that comes next.
NextRun == CHOOSE i \in Runs : run[i] = "idle" /\ \A j \in Runs : j < i => run[j] # "idle"

\* (mutant: reindexProject without its isIndexing guard)
ReindexProjectNoGuard ==
    /\ isIndexing' = TRUE
    /\ run' = [run EXCEPT ![NextRun] = "progress"]

\* reindexProject() from its entry to `await vscode.window.withProgress`:
\* if isIndexing, show 'Indexing already in progress...' and return, else
\* set it.
ReindexProject ==
    IF isIndexing
    THEN /\ run' = [run EXCEPT ![NextRun] = "rejected"]
         /\ UNCHANGED isIndexing
    ELSE /\ isIndexing' = TRUE
         /\ run' = [run EXCEPT ![NextRun] = "progress"]

\* (mutant: the command also resets the change count)
ReindexCommandResetsCount ==
    /\ \E i \in Runs : run[i] = "idle"
    /\ ReindexProject
    /\ changeCount' = 0
    /\ UNCHANGED <<reindexTimeout, timers, seen>>
    /\ UNCHANGED <<clientVars, cacheUserVars, commandVars, chatVars>>
    /\ UNCHANGED otherVars

\* The cody.reindexProject command.
ReindexCommand ==
    /\ \E i \in Runs : run[i] = "idle"
    /\ ReindexProject
    /\ UNCHANGED <<changeCount, reindexTimeout, timers, seen>>
    /\ UNCHANGED <<clientVars, cacheUserVars, commandVars, chatVars>>
    /\ UNCHANGED otherVars

\* (mutant: the pending timer is not cancelled)
FileChangedNoClear(path) ==
    /\ changeCount < MaxChanges
    /\ seen' = [path |-> path, odd |-> ~seen.odd]
    /\ IF IsCodeFile(path)
       THEN /\ changeCount' = changeCount + 1
            /\ timers' = timers \cup {now + DebounceMs}
            /\ reindexTimeout' = now + DebounceMs
       ELSE UNCHANGED <<changeCount, timers, reindexTimeout>>
    /\ UNCHANGED <<isIndexing, run>>
    /\ UNCHANGED <<clientVars, cacheUserVars, commandVars, chatVars>>
    /\ UNCHANGED otherVars

\* fileWatcher.on('all'): return unless the path is a code file's; count the
\* change, clearTimeout(reindexTimeout) and set a new timer.
FileChanged(path) ==
    /\ changeCount < MaxChanges
    /\ seen' = [path |-> path, odd |-> ~seen.odd]
    /\ IF IsCodeFile(path)
       THEN /\ changeCount' = changeCount + 1
            /\ timers' = (timers \ {reindexTimeout}) \cup {now + DebounceMs}
            /\ reindexTimeout' = now + DebounceMs
       ELSE UNCHANGED <<changeCount, timers, reindexTimeout>>
    /\ UNCHANGED <<isIndexing, run>>
    /\ UNCHANGED <<clientVars, cacheUserVars, commandVars, chatVars>>
    /\ UNCHANGED otherVars

\* (mutant: the threshold is tested with >)
DebounceFiresAboveThreshold(t) ==
    /\ t \in timers /\ now >= t
    /\ \E i \in Runs : run[i] = "idle"
    /\ timers' = timers \ {t}
    /\ IF ~isIndexing /\ changeCount > maxChangesBeforeReindex
       THEN ReindexProject /\ changeCount' = 0
       ELSE UNCHANGED <<isIndexing, run, changeCount>>
    /\ UNCHANGED <<reindexTimeout, seen>>
    /\ UNCHANGED <<clientVars, cacheUserVars, commandVars, chatVars>>
    /\ UNCHANGED otherVars

\* A debounce timer fires, at its deadline or later: the callback given to
\* setTimeout runs.
DebounceFires(t) ==
    /\ t \in timers /\ now >= t
    /\ \E i \in Runs : run[i] = "idle"
    /\ timers' = timers \ {t}
    /\ IF ~isIndexing /\ changeCount >= maxChangesBeforeReindex
       THEN ReindexProject /\ changeCount' = 0
       ELSE UNCHANGED <<isIndexing, run, changeCount>>
    /\ UNCHANGED <<reindexTimeout, seen>>
    /\ UNCHANGED <<clientVars, cacheUserVars, commandVars, chatVars>>
    /\ UNCHANGED otherVars

\* The task given to withProgress runs: it throws if cancellation was
\* requested, else it calls apiClient.reindexProject and awaits it.
ProgressTask(i, cancelled) ==
    /\ run[i] = "progress"
    /\ IF cancelled
       THEN run' = [run EXCEPT ![i] = "done"] /\ isIndexing' = FALSE
       ELSE run' = [run EXCEPT ![i] = "calling"] /\ UNCHANGED isIndexing
    /\ UNCHANGED <<changeCount, reindexTimeout, timers, seen>>
    /\ UNCHANGED <<clientVars, cacheUserVars, commandVars, chatVars>>
    /\ UNCHANGED otherVars

\* (mutant: isIndexing is not reset when the call has settled)
ReindexSettlesNoFinally(i) ==
    /\ run[i] = "calling"
    /\ run' = [run EXCEPT ![i] = "done"]
    /\ UNCHANGED <<isIndexing, changeCount, reindexTimeout, timers, seen>>
    /\ UNCHANGED <<clientVars, cacheUserVars, commandVars, chatVars, otherVars>>

\* apiClient.reindexProject settles, with success or not; `finally` runs.
ReindexSettles(i) ==
    /\ run[i] = "calling"
    /\ run' = [run EXCEPT ![i] = "done"]
    /\ isIndexing' = FALSE
    /\ UNCHANGED <<changeCount, reindexTimeout, timers, seen>>
    /\ UNCHANGED <<clientVars, cacheUserVars, commandVars, chatVars>>
    /\ UNCHANGED otherVars

\* Half a debounce period passes.
Wait ==
    /\ now < MaxWaits * (DebounceMs \div 2)
    /\ now' = now + DebounceMs \div 2
    /\ UNCHANGED <<config, cfgGen, cache, requestQueue, call, extVars>>

\* ------------------------------------------------------ the chat session
\* A file path is absolute or not, and a sequence of segments.
\* workspaceFolders[0].uri.fsPath is /w/p.
WorkspaceRoot == <<"w", "p">>

\* foo.py, ../../etc/passwd, src/../foo.py, /etc/passwd and the empty path.
EditFiles ==
    {[abs |-> FALSE, segs |-> <<"foo.py">>],
     [abs |-> FALSE, segs |-> <<"..", "..", "etc", "passwd">>],
     [abs |-> FALSE, segs |-> <<"src", "..", "foo.py">>],
     [abs |-> TRUE, segs |-> <<"etc", "passwd">>],
     [abs |-> FALSE, segs |-> <<>>]}

\* CodeEdit: newText stands for whether the text is non-empty.
CodeEdits == [file : EditFiles, newText : BOOLEAN]

Edit(segs) == [file |-> [abs |-> FALSE, segs |-> segs], newText |-> TRUE]

\* response.data.codeEdits: no edit, one edit with text (of a path with
\* parent segments, an absolute one or the empty one), foo.py without text,
\* or foo.py and then ../../etc/passwd.
EditLists ==
    {<<>>} \cup {<<e>> : e \in {d \in CodeEdits :
                                 d.newText /\ d.file.segs # <<"foo.py">>}}
           \cup {<<[file |-> [abs |-> FALSE, segs |-> <<"foo.py">>], newText |-> FALSE]>>,
                 <<Edit(<<"foo.py">>), Edit(<<"..", "..", "etc", "passwd">>)>>}

\* What `await Promise.race([apiClient.chat(...), timer])` gives: a response
\* with a reply (response: the reply is non-empty) or without success, or the
\* timer's rejection.
ChatResponses ==
    {[success |-> TRUE, response |-> TRUE, codeEdits |-> el] : el \in EditLists}
        \cup {[success |-> TRUE, response |-> FALSE, codeEdits |-> <<>>],
              [success |-> FALSE, response |-> FALSE, codeEdits |-> <<>>]}

\* The segments left when `.` and `..` are resolved, from the root down.
RECURSIVE NormalizeSegs(_, _)
NormalizeSegs(segs, acc) ==
    IF segs = <<>> THEN acc
    ELSE IF Head(segs) = ".."
         THEN NormalizeSegs(Tail(segs),
                            IF acc = <<>> THEN acc ELSE SubSeq(acc, 1, Len(acc) - 1))
    ELSE IF Head(segs) = "."
         THEN NormalizeSegs(Tail(segs), acc)
    ELSE NormalizeSegs(Tail(segs), Append(acc, Head(segs)))

\* path.isAbsolute(edit.file) ? Uri.file(edit.file)
\*     : Uri.file(path.resolve(workspaceFolder, edit.file)): the file named.
EditTarget(file) ==
    IF file.abs
    THEN NormalizeSegs(file.segs, <<>>)
    ELSE NormalizeSegs(WorkspaceRoot \o file.segs, <<>>)

\* A ChatMessageInternal: its role, whether it is the catch block's error
\* message, the user message it answers (0 for a user message), and whether
\* the note that code changes were applied was added to its content.
Message(role, error, answers) ==
    [role |-> role, error |-> error, answers |-> answers, applied |-> FALSE]

\* (mutant: a new message goes to the front)
Unshift(history, m) == <<m>> \o history

\* chatHistory.push(message)
Push(history, m) == Append(history, m)

\* handleChatMessage(message) up to `await this.getCurrentEditorContext()`:
\* nothing for a blank message, else the user's message is created and pushed.
HandleChatMessage(h, blank) ==
    /\ chat[h].pc = "idle"
    /\ \A g \in Chats : g < h => chat[g].pc # "idle"
    /\ IF blank
       THEN /\ chat' = [chat EXCEPT ![h].pc = "done"]
            /\ UNCHANGED <<chatHistory, msgs>>
       ELSE /\ msgs' = Append(msgs, Message("user", FALSE, 0))
            /\ chatHistory' = Push(chatHistory, Len(msgs) + 1)
            /\ chat' = [chat EXCEPT ![h].pc = "context",
                                    ![h].user = Len(msgs) + 1]
    /\ UNCHANGED <<written, clientVars, cacheUserVars, commandVars, indexVars>>
    /\ UNCHANGED otherVars

\* getCurrentEditorContext() has returned: apiClient.chat is called with a
\* copy of chatHistory, raced against the 60 s timer.
ChatCallsApi(h) ==
    /\ chat[h].pc = "context"
    /\ chat' = [chat EXCEPT ![h].pc = "api"]
    /\ UNCHANGED <<chatHistory, msgs, written>>
    /\ UNCHANGED <<clientVars, cacheUserVars, commandVars, indexVars>>
    /\ UNCHANGED otherVars

\* The race settles: with a reply, the assistant's message is created and
\* pushed and its code edits, if any, are applied next; otherwise the catch
\* block pushes an error message.
ChatResponds(h, resp) ==
    /\ chat[h].pc = "api"
    /\ IF resp.success /\ resp.response
       THEN /\ msgs' = Append(msgs, Message("assistant", FALSE, chat[h].user))
            /\ chatHistory' = Push(chatHistory, Len(msgs) + 1)
            /\ chat' = [chat EXCEPT ![h].pc = IF Len(resp.codeEdits) > 0
                                              THEN "edits" ELSE "done",
                                    ![h].msg = Len(msgs) + 1,
                                    ![h].edits = resp.codeEdits]
       ELSE /\ msgs' = Append(msgs, Message("assistant", TRUE, chat[h].user))
            /\ chatHistory' = Push(chatHistory, Len(msgs) + 1)
            /\ chat' = [chat EXCEPT ![h].pc = "done"]
    /\ UNCHANGED <<written, clientVars, cacheUserVars, commandVars, indexVars>>
    /\ UNCHANGED otherVars

\* applyCodeEdits, one turn of its loop: an edit without file or text is
\* refused; else the file named is opened or created, replaced and saved,
\* unless one of these steps fails (ok).  The catch inside the loop records
\* a failure in results and the loop goes on.
ApplyCodeEdit(h, ok) ==
    /\ chat[h].pc = "edits"
    /\ chat[h].edits # <<>>
    /\ LET edit == Head(chat[h].edits)
           success == edit.file.segs # <<>> /\ edit.newText /\ ok
       IN  /\ written' = IF success
                         THEN written \cup {[file |-> edit.file,
                                              target |-> EditTarget(edit.file)]}
                         ELSE written
           /\ chat' = [chat EXCEPT ![h].edits = Tail(@),
                                   ![h].results = Append(@, success)]
    /\ UNCHANGED <<chatHistory, msgs>>
    /\ UNCHANGED <<clientVars, cacheUserVars, commandVars, indexVars>>
    /\ UNCHANGED otherVars

\* applyCodeEdits has returned, which it does without throwing, and its
\* results are dropped: the note that changes were applied is added to the
\* assistant's message, wherever that message is by now.
CodeEditsApplied(h) ==
    /\ chat[h].pc = "edits"
    /\ chat[h].edits = <<>>
    /\ msgs' = [msgs EXCEPT ![chat[h].msg].applied = TRUE]
    /\ chat' = [chat EXCEPT ![h].pc = "done", ![h].results = <<>>]
    /\ UNCHANGED <<chatHistory, written>>
    /\ UNCHANGED <<clientVars, cacheUserVars, commandVars, indexVars>>
    /\ UNCHANGED otherVars

\* clearChat(): chatHistory = [].
ClearChat ==
    /\ chatHistory' = <<>>
    /\ UNCHANGED <<msgs, chat, written>>
    /\ UNCHANGED <<clientVars, cacheUserVars, commandVars, indexVars>>
    /\ UNCHANGED otherVars

\* ------------------------------------------------ the completion provider
\* Date.now(): the model's clock counts from the activation of the extension.
DateNow == Epoch + now

\* QuantumMs pass.
Elapse ==
    /\ now < MaxQuanta * QuantumMs
    /\ now' = now + QuantumMs
    /\ UNCHANGED <<config, cfgGen, cache, requestQueue, call, extVars>>

\* (mutant: lastRequestTime is set before the debounce check is made)
ProvideCompletionItemsNoDebounce(p, c, i, blank) ==
    /\ items[p] = NoProvide
    /\ \A q \in Provides : q < p => items[q] # NoProvide
    /\ lastRequestTime' = DateNow
    /\ IF blank
       THEN /\ items' = [items EXCEPT ![p] =
                            [done |-> TRUE, at |-> DateNow, passed |-> TRUE,
                             issued |-> FALSE]]
            /\ UNCHANGED clientVars
       ELSE /\ items' = [items EXCEPT ![p] =
                            [done |-> TRUE, at |-> DateNow, passed |-> TRUE,
                             issued |-> TRUE]]
            /\ StartRequest(c, Completions(i))
    /\ UNCHANGED <<cacheUserVars, commandVars, indexVars, chatVars>>
    /\ UNCHANGED <<extractVars, singletonVars>>

\* provideCompletionItems(document, position, token) up to its first
\* suspension point: undefined if less than debounceMs have passed since
\* lastRequestTime; else lastRequestTime is set, and undefined is returned
\* for a blank line prefix, else apiClient.getCompletions is called, which
\* runs makeRequest up to its first suspension point.
ProvideCompletionItems(p, c, i, blank) ==
    /\ items[p] = NoProvide
    /\ \A q \in Provides : q < p => items[q] # NoProvide
    /\ IF DateNow - lastRequestTime < debounceMs
       THEN /\ items' = [items EXCEPT ![p] =
                            [done |-> TRUE, at |-> DateNow, passed |-> FALSE,
                             issued |-> FALSE]]
            /\ UNCHANGED <<lastRequestTime, clientVars>>
       ELSE /\ lastRequestTime' = DateNow
            /\ IF blank
               THEN /\ items' = [items EXCEPT ![p] =
                                    [done |-> TRUE, at |-> DateNow,
                                     passed |-> TRUE, issued |-> FALSE]]
                    /\ UNCHANGED clientVars
               ELSE /\ items' = [items EXCEPT ![p] =
                                    [done |-> TRUE, at |-> DateNow,
                                     passed |-> TRUE, issued |-> TRUE]]
                    /\ StartRequest(c, Completions(i))
    /\ UNCHANGED <<cacheUserVars, commandVars, indexVars, chatVars>>
    /\ UNCHANGED <<extractVars, singletonVars>>

\* ------------------------------------------------ the Code-Edit Extractor
\* A reply is a sequence of parts: prose, a fenced block whose opening fence
\* carries a file annotation ("tagged"), a fenced block without one ("fence"),
\* or a block whose tag or fence is incomplete ("partial").  A block has the
\* path of its tag (empty if the annotation names none) and its content:
\* oversized if longer than the ceiling, tags if it holds disallowed tag
\* sequences.
Prose == [kind |-> "prose", file |-> <<>>, oversized |-> FALSE, tags |-> FALSE]
Block(kind, file, oversized, tags) ==
    [kind |-> kind, file |-> file, oversized |-> oversized, tags |-> tags]

Parts ==
    {Prose,
     Block("fence", <<>>, FALSE, FALSE),
     Block("partial", <<"foo.py">>, FALSE, FALSE),
     Block("tagged", <<"foo.py">>, FALSE, FALSE),
     Block("tagged", <<>>, TRUE, TRUE),
     Block("tagged", <<"..", "..", "etc", "passwd">>, FALSE, FALSE)}

RECURSIVE SeqsUpTo(_, _)
SeqsUpTo(S, n) ==
    IF n = 0 THEN {<<>>}
    ELSE LET shorter == SeqsUpTo(S, n - 1)
         IN  shorter \cup {Append(q, x) : q \in shorter, x \in S}

RawResponses == SeqsUpTo(Parts, MaxParts)

\* currentFilePath
CurrentFiles == {<<"src", "a.ts">>}

\* (mutant: every fenced block is taken for an edit)
IsBlockAnyFence(part) == part.kind \in {"tagged", "fence"}

\* A part the extractor recognizes: a fenced block tagged with a file.
IsBlock(part) == part.kind = "tagged"

NotBlock(part) == ~IsBlock(part)
NotParent(seg) == seg # ".."

\* The tagged path resolved: the current file's if empty, and with its
\* parent-directory segments normalized away.
ResolveTag(file, currentFilePath) ==
    SelectSeq(IF file = <<>> THEN currentFilePath ELSE file, NotParent)

\* The edit made of a block: content truncated to the ceiling and sanitized.
EditOf(part, currentFilePath) ==
    [file |-> ResolveTag(part.file, currentFilePath),
     newText |-> [part EXCEPT !.oversized = FALSE, !.tags = FALSE]]

\* extract(rawResponse, currentFilePath) -> (displayText, edits)
Extract(raw, currentFilePath) ==
    LET blocks == SelectSeq(raw, IsBlock)
    IN  [done |-> TRUE,
         displayText |-> SelectSeq(raw, NotBlock),
         edits |-> [k \in 1..Len(blocks) |-> EditOf(blocks[k], currentFilePath)]]

\* The backend extracts the edits of the model's reply.
ExtractStep(currentFilePath) ==
    /\ extraction = NoExtraction
    /\ extraction' = Extract(rawResponse, currentFilePath)
    /\ UNCHANGED <<rawResponse, clientVars, cacheUserVars, commandVars>>
    /\ UNCHANGED <<indexVars, chatVars, singletonVars, completionVars>>

\* ------------------------------------------- ConfigManager.getInstance
\* No configuration loaded: no ConfigManager constructed.
NoConfig == [maxRetries |-> 0, requestTimeout |-> 0]

\* (mutant: getInstance without its test of the instance)
GetInstanceAlwaysNew(k, raw) ==
    /\ constructed' = constructed + 1
    /\ instance' = constructed + 1
    /\ config' = LoadConfiguration(raw)
    /\ got' = [got EXCEPT ![k] = instance']
    /\ UNCHANGED <<now, cfgGen, cache, requestQueue, call>>
    /\ UNCHANGED <<cacheUserVars, commandVars, indexVars, chatVars, extractVars>>
    /\ UNCHANGED completionVars

\* Caller k calls ConfigManager.getInstance() while the user's settings are
\* raw: a ConfigManager is constructed, and loads them, if there is none.
GetInstance(k, raw) ==
    /\ IF instance = NoInstance
       THEN /\ constructed' = constructed + 1
            /\ instance' = constructed + 1
            /\ config' = LoadConfiguration(raw)
       ELSE UNCHANGED <<constructed, instance, config>>
    /\ got' = [got EXCEPT ![k] = instance']
    /\ UNCHANGED <<now, cfgGen, cache, requestQueue, call>>
    /\ UNCHANGED <<cacheUserVars, commandVars, indexVars, chatVars, extractVars>>
    /\ UNCHANGED completionVars

\* ------------------------------------- the older ApiClient.makeRequest
\* The older client has no cache and no in-flight map, reads maxRetries from
\* the older ConfigManager, and returns response.data as it is.
LegacyExtractErrorMessage(error) ==
    IF error.type = "response"
    THEN [msg |-> "failed: HTTP", status |-> error.status]
    ELSE IF error.type = "request"
         THEN [msg |-> "failed: No response from server"]
         ELSE [msg |-> "failed: Unknown error"]

\* makeRequest up to `await checkBackendConnection()`.
LegacyMakeRequest(c, r) ==
    /\ MayStart(c)
    /\ call' = [call EXCEPT ![c].pc = "probe", ![c].req = r,
                            ![c].maxRetries = config.maxRetries]
    /\ UNCHANGED <<now, config, cfgGen, cache, requestQueue>>
    /\ UNCHANGED extVars

\* After the loop: extractErrorMessage(lastError), which throws when no
\* attempt was made (lastError is undefined).
LegacyReturnFailure(c, error) ==
    call' = [call EXCEPT ![c] =
                Returned([call[c] EXCEPT !.lastError = error],
                         IF error = NoError THEN NoOutcome
                         ELSE Failure(LegacyExtractErrorMessage(error), cfgGen),
                         "network")]

LegacyProbeDone(c, isConnected) ==
    /\ call[c].pc = "probe"
    /\ IF ~isConnected
       THEN call' = [call EXCEPT ![c] =
                    Returned(call[c], Failure(CannotConnect, cfgGen), "probe")]
       ELSE IF 1 <= call[c].maxRetries
       THEN call' = [call EXCEPT ![c].pc = "exec", ![c].attempt = 1,
                                 ![c].nReq = 1, ![c].sentGen = cfgGen]
       ELSE LegacyReturnFailure(c, NoError)
    /\ UNCHANGED <<now, config, cfgGen, cache, requestQueue>>
    /\ UNCHANGED extVars

LegacyRespond(c, body) ==
    /\ call[c].pc = "exec"
    /\ body \in Bodies(call[c].req.input)
    /\ call' = [call EXCEPT ![c] =
                    Returned([call[c] EXCEPT !.body = body,
                                             !.lastError = NoError],
                             Success(body, cfgGen), "network")]
    /\ UNCHANGED <<now, config, cfgGen, cache, requestQueue>>
    /\ UNCHANGED extVars

LegacyFail(c, error) ==
    /\ call[c].pc = "exec"
    /\ IF IsNonRetryableError(error)
       THEN LegacyReturnFailure(c, error)
       ELSE IF call[c].attempt < call[c].maxRetries
       THEN call' = [call EXCEPT ![c].pc = "sleep",
                                 ![c].lastError = error,
                                 ![c].delay = LegacyBackoff(call[c].attempt)]
       ELSE LegacyReturnFailure(c, error)
    /\ UNCHANGED <<now, config, cfgGen, cache, requestQueue>>
    /\ UNCHANGED extVars

LegacyWake(c) ==
    /\ call[c].pc = "sleep"
    /\ call' = [call EXCEPT ![c].pc = "exec",
                            ![c].attempt = call[c].attempt + 1,
                            ![c].nReq = call[c].nReq + 1,
                            ![c].delay = 0]
    /\ UNCHANGED <<now, config, cfgGen, cache, requestQueue>>
    /\ UNCHANGED extVars

\* -------------------------------------------------------- specifications
\* Spec: concurrent calls against the cache and the in-flight map, as time
\* passes.
Init == InitWith(FewSettings)

Next ==
    \/ \E c \in Calls, r \in Requests : MakeRequest(c, r)
    \/ \E c \in Calls, ok \in BOOLEAN : ProbeDone(c, ok)
    \/ \E c \in Calls, b \in FewBodies : Respond(c, b)
    \/ \E c \in Calls, e \in FewErrors : Fail(c, e)
    \/ \E c \in Calls : Wake(c)
    \/ Tick

Spec == Init /\ [][Next]_vars

\* SpecConfig: concurrent calls while the configuration changes.
NextConfig ==
    \/ \E c \in Calls, r \in Requests : MakeRequest(c, r)
    \/ \E c \in Calls, ok \in BOOLEAN : ProbeDone(c, ok)
    \/ \E c \in Calls, b \in FewBodies : Respond(c, b)
    \/ \E c \in Calls, e \in FewErrors : Fail(c, e)
    \/ \E c \in Calls : Wake(c)
    \/ \E raw \in FewSettings : UpdateConfiguration(raw)

SpecConfig == Init /\ [][NextConfig]_vars

\* SpecListener: concurrent calls in the running extension, whose settings
\* the user changes.
NextListener ==
    \/ \E c \in Calls, r \in Requests : MakeRequest(c, r)
    \/ \E c \in Calls, ok \in BOOLEAN : ProbeDone(c, ok)
    \/ \E c \in Calls, b \in FewBodies : Respond(c, b)
    \/ \E c \in Calls, e \in FewErrors : Fail(c, e)
    \/ \E c \in Calls : Wake(c)
    \/ \E raw \in FewSettings : OnDidChangeConfiguration(raw)

SpecListener == Init /\ [][NextListener]_vars

\* SpecCommand: cody.generateCode commands, each racing its request against
\* the command's timer.
NextCommand ==
    \/ \E c \in Calls, i \in Inputs : GenerateCodeCommand(c, i)
    \/ \E c \in Calls, ok \in BOOLEAN : ProbeDone(c, ok)
    \/ \E c \in Calls, b \in FewBodies : Respond(c, b)
    \/ \E c \in Calls, e \in FewErrors : Fail(c, e)
    \/ \E c \in Calls : Wake(c)
    \/ \E c \in Calls : CommandTimeout(c)
    \/ \E c \in Calls, cancelled \in BOOLEAN : CommandResume(c, cancelled)

SpecCommand == Init /\ [][NextCommand]_vars

\* SpecInput: the generate-code and fix-bug commands from their input boxes
\* on.
NextInput ==
    \/ \E c \in Calls, kind \in {"generate", "fixBug"} : ShowInputBox(c, kind)
    \/ \E c \in Calls, value \in Texts, i \in Inputs : AcceptInput(c, value, i)
    \/ \E c \in Calls : DismissInput(c)
    \/ \E c \in Calls, ok \in BOOLEAN : ProbeDone(c, ok)

SpecInput == Init /\ [][NextInput]_vars

\* SpecOverlap: concurrent chat calls with prompts that may differ.
NextOverlap ==
    \/ \E c \in Calls, r \in ChatRequests : MakeRequest(c, r)
    \/ \E c \in Calls, ok \in BOOLEAN : ProbeDone(c, ok)
    \/ \E c \in Calls, i \in 1..NPrompts : Respond(c, EnvelopeOk(i))
    \/ \E c \in Calls, e \in FewErrors : Fail(c, e)
    \/ \E c \in Calls : Wake(c)

SpecOverlap == Init /\ [][NextOverlap]_vars

\* SpecSingleton: getInstance called by several callers in any order, from
\* before the first call on, under any of the settings.
InitNoInstance ==
    /\ InitExtension
    /\ rawResponse = <<>>
    /\ extraction = NoExtraction
    /\ instance = NoInstance
    /\ constructed = 0
    /\ got = [k \in Gets |-> NoInstance]
    /\ now = 0
    /\ config = NoConfig
    /\ cfgGen = 0
    /\ cache = <<>>
    /\ requestQueue = {}
    /\ call = [c \in Calls |-> IdleCall]

NextSingleton == \E k \in Gets, raw \in AllSettings : GetInstance(k, raw)

SpecSingleton == InitNoInstance /\ [][NextSingleton]_vars

\* SpecExtract: the extractor applied to each of the replies tried.
InitExtract ==
    /\ InitExtension
    /\ InitSingleton
    /\ rawResponse \in RawResponses
    /\ extraction = NoExtraction
    /\ now = 0
    /\ config = LoadConfiguration(Settings(Unset, Unset))
    /\ cfgGen = 0
    /\ cache = <<>>
    /\ requestQueue = {}
    /\ call = [c \in Calls |-> IdleCall]

NextExtract == \E cur \in CurrentFiles : ExtractStep(cur)

SpecExtract == InitExtract /\ [][NextExtract]_vars

\* SpecCompletion: completions asked for as time passes, and their requests.
NextCompletion ==
    \/ \E p \in Provides, c \in Calls, i \in Inputs, blank \in BOOLEAN :
           ProvideCompletionItems(p, c, i, blank)
    \/ Elapse
    \/ \E c \in Calls, ok \in BOOLEAN : ProbeDone(c, ok)
    \/ \E c \in Calls, i \in Inputs : Respond(c, EnvelopeOk(i))

SpecCompletion == Init /\ [][NextCompletion]_vars

\* SpecChat: messages sent, answered and applied, and the chat cleared.
NextChat ==
    \/ \E h \in Chats, blank \in BOOLEAN : HandleChatMessage(h, blank)
    \/ \E h \in Chats : ChatCallsApi(h)
    \/ \E h \in Chats, resp \in ChatResponses : ChatResponds(h, resp)
    \/ \E h \in Chats, ok \in BOOLEAN : ApplyCodeEdit(h, ok)
    \/ \E h \in Chats : CodeEditsApplied(h)
    \/ ClearChat

SpecChat == Init /\ [][NextChat]_vars

\* SpecIndex: file changes, the debounce timer and the re-index command.
NextIndex ==
    \/ ReindexCommand
    \/ \E path \in Paths : FileChanged(path)
    \/ \E t \in timers : DebounceFires(t)
    \/ Wait
    \/ \E i \in Runs, cancelled \in BOOLEAN : ProgressTask(i, cancelled)
    \/ \E i \in Runs : ReindexSettles(i)

SpecIndex == Init /\ [][NextIndex]_vars

\* SpecIndexLive: SpecIndex with the progress the runtime gives: the task
\* given to withProgress is run, apiClient.reindexProject settles (its probe
\* and requests have timeouts, its retries are bounded), time passes and a
\* timer that is due fires.  File events and commands may or may not come.
IndexFairness ==
    /\ \A i \in Runs :
          /\ WF_vars(\E cancelled \in BOOLEAN : ProgressTask(i, cancelled))
          /\ WF_vars(ReindexSettles(i))
    /\ WF_vars(\E t \in timers : DebounceFires(t))
    /\ WF_vars(Wait)

SpecIndexLive == Init /\ [][NextIndex]_vars /\ IndexFairness

\* SpecLive: the calls of Spec at one instant of the clock, with the progress
\* the runtime gives.  The probe and every
\* request are axios calls with a timeout, so each settles; the backoff
\* timer fires.
Fairness ==
    \A c \in Calls :
        /\ WF_vars(\E ok \in BOOLEAN : ProbeDone(c, ok))
        /\ WF_vars(\/ \E b \in FewBodies : Respond(c, b)
                   \/ \E e \in FewErrors : Fail(c, e))
        /\ WF_vars(Wake(c))

NextLive ==
    \/ \E c \in Calls, r \in Requests : MakeRequest(c, r)
    \/ \E c \in Calls, ok \in BOOLEAN : ProbeDone(c, ok)
    \/ \E c \in Calls, b \in FewBodies : Respond(c, b)
    \/ \E c \in Calls, e \in FewErrors : Fail(c, e)
    \/ \E c \in Calls : Wake(c)

SpecLive == Init /\ [][NextLive]_vars /\ Fairness

\* SpecRetry: the retry loop and the response normalization, for every
\* setting, response shape and error.
InitRetry == InitWith(RawSettings)

NextRetry ==
    \/ \E c \in 1..RetryCalls, r \in Requests : MakeRequest(c, r)
    \/ \E c \in Calls, ok \in BOOLEAN : ProbeDone(c, ok)
    \/ \E c \in Calls, b \in AllBodies : Respond(c, b)
    \/ \E c \in Calls, e \in Errors : Fail(c, e)
    \/ \E c \in Calls : Wake(c)

SpecRetry == InitRetry /\ [][NextRetry]_vars

\* SpecCache: an ApiCache on its own, empty or holding maxSize - 1 entries,
\* given set, get and clear calls as time passes.
InitCache ==
    /\ InitExt
    /\ now = 0
    /\ config = LoadConfiguration(Settings(Unset, Unset))
    /\ cfgGen = 0
    /\ \E first \in {0, 1}, n \in {0, maxSize - 1} : cache = Filled(first, n)
    /\ requestQueue = {}
    /\ call = [c \in Calls |-> IdleCall]

NextCache ==
    \/ \E k \in CacheKeys, v \in CacheValues, d \in CacheTTLs : Set(k, v, d)
    \/ \E k \in CacheKeys : Get(k)
    \/ Clear
    \/ Tick

SpecCache == InitCache /\ [][NextCache]_vars

\* SpecLegacy: the older client under the older configuration loader.
InitLegacy ==
    /\ InitExt
    /\ now = 0
    /\ \E raw \in RawSettings : config = LegacyLoadConfiguration(raw)
    /\ cfgGen = 0
    /\ cache = <<>>
    /\ requestQueue = {}
    /\ call = [c \in Calls |-> IdleCall]

NextLegacy ==
    \/ \E c \in 1..RetryCalls, r \in Requests : LegacyMakeRequest(c, r)
    \/ \E c \in Calls, ok \in BOOLEAN : LegacyProbeDone(c, ok)
    \/ \E c \in Calls, b \in AllBodies : LegacyRespond(c, b)
    \/ \E c \in Calls, e \in Errors : LegacyFail(c, e)
    \/ \E c \in Calls : LegacyWake(c)

SpecLegacy == InitLegacy /\ [][NextLegacy]_vars

\* SpecOldConfig: the current client under the older configuration loader,
\* the ConfigManager that src/vscode-extension/src/config.ts itself defines.
SpecOldConfig == InitLegacy /\ [][NextRetry]_vars

\* SpecOldSettings: the older ConfigManager, constructed and then told to
\* load again, for all the settings tried.
InitOldSettings ==
    /\ InitExt
    /\ now = 0
    /\ \E raw \in AllSettings : config = LegacyLoadConfiguration(raw)
    /\ cfgGen = 0
    /\ cache = <<>>
    /\ requestQueue = {}
    /\ call = [c \in Calls |-> IdleCall]

NextOldSettings == \E raw \in AllSettings : LegacyUpdateConfiguration(raw)

SpecOldSettings == InitOldSettings /\ [][NextOldSettings]_vars

\* ------------------------------------------------------------ properties
Running(c) == call[c].pc \in {"exec", "sleep"}

\* The positions of the unexpired entries for key, and the unexpired entries.
LiveEntries(c, key, t) ==
    {i \in 1..Len(c) : c[i].key = key /\ t - c[i].timestamp <= c[i].ttl}
Live(c, t) == {c[i] : i \in {j \in 1..Len(c) : t - c[j].timestamp <= c[j].ttl}}

\* A status in [400,500) other than 429.
ClientErrorStatus(s) == s >= 400 /\ s < 500 /\ s # 429
IsClientError(error) == error.type = "response" /\ ClientErrorStatus(error.status)

\* C1: of two calls with the same operation and cache key, the second started
\* while the first was in progress (at whatever point of it), only one runs
\* requestFn, so at most one network call for the key is outstanding, and
\* once both have returned they have returned the same outcome.
C1_Coalescing ==
    \A c, d \in Calls :
        call[d].overlap = c
            => /\ ~(call[c].nReq > 0 /\ call[d].nReq > 0)
               /\ ~(call[c].pc = "exec" /\ call[d].pc = "exec")
               /\ (call[c].pc = "done" /\ call[d].pc = "done")
                      => call[c].out = call[d].out

\* C2: requestQueue holds a key if and only if exactly one executeRequest call
\* for that key has started and not yet settled.
C2_QueueIffOneOutstanding ==
    \A r \in Requests :
        QueueHas(requestQueue, RequestKey(r))
            <=> Cardinality({c \in Calls :
                    Running(c) /\ RequestKey(call[c].req) = RequestKey(r)}) = 1

\* C3: a call that returns from the cache returns an outcome whose request was
\* sent under the configuration in force, never one fetched before the last
\* ApiClient.updateConfiguration.
C3_NoStaleCacheHit ==
    [][\A c \in Calls :
          (call[c].pc = "idle" /\ call'[c].pc = "done" /\ call'[c].via = "cache")
              => call'[c].out.gen = cfgGen]_vars

\* C4: a makeRequest call with a cacheKey for which the cache holds an
\* unexpired entry returns that entry's outcome at once: no connectivity probe,
\* no requestFn invocation, requestQueue as it was.
C4_CacheHitShortCircuits ==
    [][\A c \in Calls :
          (/\ call[c].pc = "idle" /\ call'[c].pc # "idle"
           /\ call'[c].req.cacheKey # NoCacheKey
           /\ LiveEntries(cache, call'[c].req.cacheKey, now) # {})
          => /\ call'[c].pc = "done"
             /\ \E i \in LiveEntries(cache, call'[c].req.cacheKey, now) :
                    call'[c].out = cache[i].data
             /\ call'[c].nReq = 0
             /\ requestQueue' = requestQueue]_vars

C4_Witness ==
    \E c \in Calls :
        /\ call[c].pc = "done" /\ call[c].via = "cache"
        /\ call[c].nReq = 0 /\ call[c].out.success
        /\ now > 0

\* Every cache entry is a successful outcome under a generateCode cacheKey.
C5_CacheHoldsSuccesses ==
    \A i \in 1..Len(cache) :
        /\ cache[i].data.success
        /\ \E n \in Inputs : cache[i].key = GenerateCode(n).cacheKey

\* A call that returns a failed outcome, or is a chat call, leaves the cache.
C5_FailuresLeaveCache ==
    [][\A c \in Calls :
          (/\ call[c].pc \in {"probe", "exec"} /\ call'[c].pc = "done"
           /\ (~call'[c].out.success \/ call[c].req.cacheKey = NoCacheKey))
          => cache' = cache]_vars

\* C5: the cache only ever holds successful outcomes, under the cacheKey of a
\* cacheable operation; a call that ends in a failed outcome (connectivity
\* failure, client error, exhausted retries, backend-reported failure), and a
\* call of a non-cacheable operation (chat), leaves the cache as it was.
C5_OnlySuccessesCached == []C5_CacheHoldsSuccesses /\ C5_FailuresLeaveCache

C5_Witness ==
    /\ \E c \in Calls :
          /\ call[c].pc = "done" /\ call[c].via = "network"
          /\ ~call[c].out.success /\ call[c].nReq = 2
          /\ call[c].req.cacheKey # NoCacheKey
          /\ CacheIndex(cache, call[c].req.cacheKey) = 0
    /\ \E d \in Calls :
          /\ call[d].pc = "done" /\ call[d].via = "network"
          /\ call[d].out.success /\ call[d].req.cacheKey = NoCacheKey

\* C6: when the connectivity probe reports the backend unreachable, makeRequest
\* returns {success: false} with the cannot-connect message, has invoked
\* requestFn zero times, and has changed neither requestQueue nor what the
\* cache holds (its first step, the cache lookup, removes at most an expired
\* entry, which the cache already treated as absent).
C6_ProbeFailure ==
    [][\A c \in Calls :
          /\ (call[c].pc = "idle" /\ call'[c].pc = "probe")
                => /\ requestQueue' = requestQueue
                   /\ Live(cache', now) = Live(cache, now)
                   /\ call'[c].nReq = 0
          /\ (call[c].pc = "probe" /\ call'[c].via = "probe")
                => /\ call'[c].pc = "done"
                   /\ ~call'[c].out.success
                   /\ call'[c].out.error = CannotConnect
                   /\ call'[c].out.data = NoData
                   /\ call'[c].nReq = 0
                   /\ requestQueue' = requestQueue
                   /\ cache' = cache]_vars

C6_Witness ==
    \E c \in Calls :
        /\ call[c].pc = "done" /\ call[c].via = "probe"
        /\ call[c].nReq = 0
        /\ \E d \in Calls : d # c /\ Running(d) /\ requestQueue # {}

\* C7: in executeRequest a failure with an HTTP status in [400,500) other than
\* 429 ends the call after that attempt (no backoff, no further attempt), and
\* a call whose attempts all fail with 429, 5xx or no response invokes
\* requestFn exactly maxRetries times before it returns the failure.
C7_RetryClassification ==
    [][\A c \in Calls :
          (call[c].pc = "exec" /\ call'[c] # call[c])
          => LET m == call[c].maxRetries
                 o == call'[c].out
             IN
             /\ call[c].nReq = call[c].attempt
             /\ call'[c].pc = "sleep"
                   => /\ ~IsClientError(call'[c].lastError)
                      /\ call[c].attempt < m
             /\ (call'[c].pc = "done" /\ ~o.success /\ o.error.msg = "HTTP")
                   => IF ClientErrorStatus(o.error.status)
                      THEN call'[c].nReq = call[c].attempt
                      ELSE call'[c].nReq = m
             /\ (call'[c].pc = "done" /\ ~o.success
                    /\ o.error = GetErrorMessage(NetworkError))
                   => call'[c].nReq = m]_vars

C7_Witness ==
    \E c \in Calls :
        /\ call[c].pc = "done"
        /\ call[c].out.error = [msg |-> "HTTP", status |-> 429]
        /\ call[c].nReq = MaxMaxRetries

\* C8: the delay slept after failed retryable attempt n (n < maxRetries) is
\* exactly min(1000 * 2^(n-1), 10000) ms and so never exceeds 10000; nothing
\* is slept after the final attempt or after a non-retryable error.
C8_BackoffDelay ==
    \A c \in Calls :
        call[c].pc = "sleep"
            => /\ call[c].delay = Min(1000 * Pow2(call[c].attempt - 1), 10000)
               /\ call[c].delay <= 10000
               /\ call[c].attempt < call[c].maxRetries
               /\ ~IsClientError(call[c].lastError)

\* C9: every makeRequest call settles by returning an outcome, {success: true,
\* data} or {success: false, error}; its promise never rejects, whatever the
\* probe answers, however requestFn resolves or rejects, and for every
\* maxRetries the loaded configuration can hold.
C9_NeverRejects ==
    \A c \in Calls :
        /\ call[c].pc # "rejected"
        /\ call[c].pc = "done"
              => \/ call[c].out.success /\ call[c].out.error = NoMessage
                 \/ /\ ~call[c].out.success
                    /\ call[c].out.data = NoData
                    /\ call[c].out.error # NoMessage

\* C10: when requestFn resolves, the outcome is {success: true, data:
\* body.data} if the body is an object with a truthy 'success' field,
\* {success: false, error: body.error or 'Backend request failed'} if its
\* 'success' field is falsy, and {success: true, data: body} if it has no
\* 'success' field.
C10_Normalization ==
    \A c \in Calls :
        (call[c].pc = "done" /\ call[c].body # NoBody)
        => LET b == call[c].body
               o == call[c].out
           IN IF b.type = "object" /\ b.hasSuccess /\ b.success
              THEN o.success /\ o.data = b.data
              ELSE IF b.type = "object" /\ b.hasSuccess
              THEN /\ ~o.success
                   /\ o.error = IF b.error = NoMessage
                                THEN [msg |-> "Backend request failed"]
                                ELSE b.error
              ELSE o.success /\ o.data = b

C10_Witness ==
    \E c \in Calls :
        /\ call[c].pc = "done"
        /\ call[c].body = EnvelopeFailNoError
        /\ call[c].out.error = [msg |-> "Backend request failed"]
        /\ call[c].nReq = 3

\* The failure class a message text tells its reader: the fixed prefix of
\* the text, and for an HTTP message the status printed after it.
ClassOfMessage(m) ==
    IF m.msg = "Cannot connect to Cody backend" THEN "connectivity"
    ELSE IF m.msg = "HTTP"
    THEN IF ClientErrorStatus(m.status) THEN "client" ELSE "exhausted"
    ELSE IF m.msg \in {"Network error: No response received from server",
                       "Request error"}
    THEN "exhausted"
    ELSE "backend"

\* The failure class a call actually ended in.
ClassOfCall(cl) ==
    IF cl.via = "probe" THEN "connectivity"
    ELSE IF cl.body # NoBody THEN "backend"
    ELSE IF IsClientError(cl.lastError) THEN "client"
    ELSE "exhausted"

C12_QueueDrains ==
    /\ [](requestQueue # {} => <>(requestQueue = {}))
    /\ []((\A c \in Calls : call[c].pc \in {"idle", "done", "rejected"})
              => requestQueue = {})

C12_Witness ==
    /\ requestQueue = {}
    /\ \A c \in Calls : call[c].pc = "done" /\ call[c].via = "network"
    /\ \E c \in Calls : call[c].overlap # 0 /\ ~call[c].out.success

\* The ApiCache call a step makes, if it makes one.
IsGet == ret'.n = ret.n + 1 /\ ret'.op = "get"
IsSet == ret'.n = ret.n + 1 /\ ret'.op = "set"
HasKey(c, key) == \E i \in 1..Len(c) : c[i].key = key
EntryOf(c, key) == c[CacheIndex(c, key)]

\* C13: for an entry stored at time t with time-to-live d, get at time now
\* returns the stored value when now - t <= d, and when now - t > d returns
\* null and removes the entry; the key then stays absent until it is set
\* again.
C13_GetHonoursTTL ==
    [][/\ IsSet => /\ HasKey(cache', ret'.key)
                   /\ EntryOf(cache', ret'.key).data = ret'.value
                   /\ EntryOf(cache', ret'.key).timestamp = now
       /\ (IsGet /\ HasKey(cache, ret'.key))
            => LET e == EntryOf(cache, ret'.key) IN
               IF now - e.timestamp <= e.ttl
               THEN ret'.value = e.data
               ELSE /\ ret'.value = NoOutcome
                    /\ ~HasKey(cache', ret'.key)
                    /\ Len(cache') = Len(cache) - 1
       /\ (IsGet /\ ~HasKey(cache, ret'.key)) => ret'.value = NoOutcome
       /\ \A k \in CacheKeys :
             (~HasKey(cache, k) /\ HasKey(cache', k))
                => IsSet /\ ret'.key = k]_vars

C13_Witness ==
    /\ ret.op = "get" /\ ret.key = KeyOf(1) /\ ret.value = NoOutcome
    /\ Len(cache) = maxSize - 2
    /\ cache[1].key = KeyOf(2)

C16_GetDoesNotRefresh ==
    [][(IsGet /\ HasKey(cache, ret'.key)
          /\ now - EntryOf(cache, ret'.key).timestamp
                <= EntryOf(cache, ret'.key).ttl)
        => cache' = cache]_vars

C16_Witness ==
    /\ ret.op = "get" /\ ret.key = KeyOf(1) /\ ret.value # NoOutcome
    /\ now = GenerateTTL
    /\ Len(cache) = maxSize - 1
    /\ cache[1] = CacheEntry(KeyOf(1),
                             Success([tag |-> "data", input |-> 1], 0),
                             0, GenerateTTL)

\* C17: every configuration change of the extension (a change of a 'cody'
\* setting handled by the registered listener) clears the ApiClient cache
\* before any later request is served.
C17_ChangeClearsCache ==
    [][cfgGen' # cfgGen => cache' = <<>>]_vars

\* C18: a successful generateCode outcome is cached with a 15-minute TTL: a
\* later generateCode call with the same arguments made within 15 minutes
\* returns that outcome with no connectivity probe and no network attempt,
\* and one made after more than 15 minutes is not served from the cache and
\* goes on to the network.
C18_GenerateCachedFifteenMinutes ==
    [][\A c \in Calls :
        LET r == call'[c].req
            k == r.cacheKey
        IN
        /\ (call[c].pc \in {"exec", "sleep"} /\ call'[c].pc = "done"
               /\ call'[c].out.success /\ r.op = "Generate Code")
             => /\ HasKey(cache', k)
                /\ EntryOf(cache', k).data = call'[c].out
                /\ EntryOf(cache', k).timestamp = now
                /\ EntryOf(cache', k).ttl = 15 * 60 * 1000
        /\ (call[c].pc = "idle" /\ call'[c].pc # "idle"
               /\ r.op = "Generate Code" /\ HasKey(cache, k))
             => IF now - EntryOf(cache, k).timestamp <= 15 * 60 * 1000
                THEN /\ call'[c].pc = "done" /\ call'[c].via = "cache"
                     /\ call'[c].out = EntryOf(cache, k).data
                     /\ call'[c].nReq = 0
                ELSE /\ call'[c].pc \in {"probe", "wait"}
                     /\ ~HasKey(cache', k)]_vars

C18_Witness ==
    /\ now = 15 * 60 * 1000
    /\ call[1].pc = "done" /\ call[1].via = "network" /\ call[1].out.success
    /\ call[2].pc = "done" /\ call[2].via = "cache"
    /\ call[2].req = call[1].req /\ call[2].out = call[1].out
    /\ cache[1].timestamp = 0

\* C19: when a command's timeout fires before its apiClient call settles,
\* the command reports a failure and the makeRequest call keeps running
\* unaborted; if it later succeeds its outcome is still written to the cache
\* and served to a subsequent identical call.
C19_TimeoutLeavesRequestRunning ==
    [][\A c \in Calls :
        /\ (command[c] = "racing" /\ command'[c] = "timeout")
             => /\ call' = call /\ cache' = cache
                /\ requestQueue' = requestQueue
                /\ call[c].pc \in {"probe", "wait", "exec", "sleep"}
        /\ command[c] = "timeout" => command'[c] = "timeout"
        /\ (command[c] = "timeout" /\ call[c].pc # "done"
               /\ call'[c].pc = "done" /\ call'[c].out.success)
             => /\ HasKey(cache', call'[c].req.cacheKey)
                /\ EntryOf(cache', call'[c].req.cacheKey).data = call'[c].out
        /\ \A d \in Calls :
              (command[c] = "timeout" /\ call[c].pc = "done"
                 /\ call[c].out.success /\ call[c].via = "network"
                 /\ call[d].pc = "idle" /\ call'[d].pc # "idle"
                 /\ call'[d].req = call[c].req
                 /\ \A e \in Calls \ {c} : call[e].via # "network")
              => /\ call'[d].pc = "done" /\ call'[d].via = "cache"
                 /\ call'[d].out = call[c].out]_vars

C19_Witness ==
    /\ command[1] = "timeout"
    /\ call[1].pc = "done" /\ call[1].via = "network" /\ call[1].out.success
    /\ call[2].pc = "done" /\ call[2].via = "cache"
    /\ call[2].out = call[1].out
    /\ command[2] = "success"

\* C20: at most one reindex call is in flight at any time: neither the
\* firing of the debounce timer nor the re-index command issues
\* apiClient.reindexProject while a reindex is in progress (isIndexing true).
C20_OneReindexInFlight ==
    /\ [](Cardinality({i \in Runs : run[i] \in {"progress", "calling"}}) <= 1)
    /\ [](isIndexing <=> \E i \in Runs : run[i] \in {"progress", "calling"})
    /\ [][isIndexing => \A i \in Runs :
                run[i] = "idle" => run'[i] \in {"idle", "rejected"}]_vars

C20_Witness ==
    /\ isIndexing
    /\ \E i \in Runs : run[i] = "calling"
    /\ \E i \in Runs : run[i] = "done"
    /\ timers = {} /\ changeCount >= maxChangesBeforeReindex


\* A step in which a debounce timer fires: a pending timer goes and none comes.
TimerFires == timers' # timers /\ timers' \subseteq timers

\* Invocation i of reindexProject() gets past its guard in this step.
Started(i) == run[i] = "idle" /\ run'[i] = "progress"

\* C21: a debounce timer that fires starts a re-index if and only if
\* changeCount is at least 5 and no re-index is running at that moment, and it
\* starts one only; so four changes and then quiet start none, and the fifth
\* change and then quiet starts exactly one.
C21_FiringStartsIffThreshold ==
    [][TimerFires =>
        /\ (\E i \in Runs : Started(i))
               <=> (changeCount >= maxChangesBeforeReindex /\ ~isIndexing)
        /\ Cardinality({i \in Runs : run'[i] # run[i]}) <= 1]_vars

\* The first invocation was started by the timer: the count is back at 0 with
\* no timer pending, five seconds or more after the start.
C21_Witness ==
    /\ run[1] = "progress"
    /\ changeCount = 0
    /\ IsCodeFile(seen.path)
    /\ timers = {}
    /\ now >= DebounceMs

\* Invocation i of reindexProject() completes in this step: `finally` runs.
Completed(i) == run[i] \in {"progress", "calling"} /\ run'[i] = "done"

\* C22: when a re-index completes, with success or failure, started by the
\* timer or by the command, changeCount is 0 right afterwards.
C22_CompletionResetsCount ==
    [][(\E i \in Runs : Completed(i)) => changeCount' = 0]_vars

\* A step of the cody.reindexProject command: reindexProject() is invoked and
\* no timer fires.
CommandInvokes == timers' = timers /\ \E i \in Runs : run[i] = "idle" /\ run'[i] # "idle"

Qualifying == seen' # seen /\ IsCodeFile(seen'.path)

\* The watched paths that end in no allow-listed extension: a.tsx, a.md, ts.
OtherPaths ==
    {<<"a", ".", "t", "s", "x">>, <<"a", ".", "m", "d">>, <<"t", "s">>}

\* C24: every qualifying event adds exactly one to changeCount and replaces
\* the pending timer by one due 5 seconds later; so at most one timer is
\* pending, and the timer that fires is the one armed by the last qualifying
\* event, 5 seconds or more after it.
C24_SingleDebounceTimer ==
    /\ [][Qualifying =>
            /\ changeCount' = changeCount + 1
            /\ reindexTimeout' = now + DebounceMs
            /\ timers' = {reindexTimeout'}]_vars
    /\ [](Cardinality(timers) <= 1)
    /\ [][TimerFires => timers = {reindexTimeout} /\ now >= reindexTimeout]_vars

\* Several changes, the last of them after time 0, and the timer has fired.
C24_Witness ==
    /\ changeCount \in 2..(maxChangesBeforeReindex - 1)
    /\ reindexTimeout > DebounceMs
    /\ timers = {}

\* C25: an event for a path that does not end in an allow-listed extension
\* changes neither changeCount nor the debounce timer, and starts no re-index.
C25_OtherFilesIgnored ==
    [][(seen' # seen /\ seen'.path \in OtherPaths) =>
        UNCHANGED <<changeCount, reindexTimeout, timers, isIndexing, run>>]_vars

\* The event handled last was for a.tsx or a.md or ts, with changes counted
\* and a timer pending.
C25_Witness ==
    /\ seen.path \in OtherPaths
    /\ changeCount > 0
    /\ timers # {}

\* C26: chatHistory changes only by a message being appended at its end or by
\* being emptied, which nothing but clearChat does; so the messages it holds
\* are in their order of arrival.
C26_AppendOnlyHistory ==
    /\ [][\/ chatHistory' = chatHistory
          \/ /\ Len(chatHistory') = Len(chatHistory) + 1
             /\ SubSeq(chatHistory', 1, Len(chatHistory)) = chatHistory
          \/ chatHistory' = <<>> /\ UNCHANGED <<msgs, chat, written>>]_vars
    /\ [](\A i, j \in DOMAIN chatHistory : i < j => chatHistory[i] < chatHistory[j])

\* Three messages or more were created, the chat was cleared after the first,
\* and two or more have arrived since.
C26_Witness ==
    /\ Len(msgs) >= 3
    /\ Len(chatHistory) >= 2
    /\ chatHistory[1] > 1

\* Path p lies under the directory root.
IsUnder(root, p) == Len(p) > Len(root) /\ SubSeq(p, 1, Len(root)) = root

\* C28: an edit whose file path has parent-directory segments is never applied
\* outside the workspace root: every file an edit is written to lies under
\* the workspace folder.
C28_EditsStayInWorkspace ==
    \A w \in written :
        (\E k \in DOMAIN w.file.segs : w.file.segs[k] = "..")
            => IsUnder(WorkspaceRoot, w.target)

\* C27: whatever the maxRetries and requestTimeout settings are, or if they
\* are absent, the configuration held has 1 <= maxRetries <= 5 and
\* 5000 <= requestTimeout <= 60000, after the first load and after every
\* updateConfiguration.
C27_SettingsClamped ==
    /\ config.maxRetries >= 1 /\ config.maxRetries <= 5
    /\ config.requestTimeout >= 5000 /\ config.requestTimeout <= 60000

\* The value is blank, or longer than 500 characters for the generate prompt
\* and 1000 for the bug description.
Rejected(box) ==
    \/ box.value.blank
    \/ box.value.len > (IF box.kind = "generate" THEN 500 ELSE 1000)

\* C29: the generate-code and fix-bug commands send no request, no probe
\* included, when the prompt or description entered is blank or over its
\* ceiling: entering such a value leaves the command at its input box and its
\* call not made, and a call made comes from a value that is neither.
C29_InvalidInputSendsNothing ==
    /\ [][\A c \in Calls :
            (command[c] = "input" /\ Rejected(prompt'[c]))
                => /\ command'[c] \in {"input", "returned"}
                   /\ call'[c] = IdleCall]_vars
    /\ [](\A c \in Calls :
            call[c] # IdleCall => prompt[c].kind # "none" /\ ~Rejected(prompt[c]))

\* The first command's request is out for a prompt of 500 characters, while
\* the second, for a bug, has a description of 1001 characters in its box.
C29_Witness ==
    /\ command[1] = "racing" /\ prompt[1] = [kind |-> "generate", value |-> Text(500, FALSE)]
    /\ call[1].pc # "idle"
    /\ command[2] = "input" /\ prompt[2] = [kind |-> "fixBug", value |-> Text(1001, FALSE)]
    /\ call[2] = IdleCall

C31_Singleton ==
    /\ constructed <= 1
    /\ \A k \in Gets : got[k] # NoInstance => got[k] = instance /\ got[k] = 1

\* Every caller has called getInstance.
C31_Witness == \A k \in Gets : got[k] # NoInstance

\* C32: within one executeRequest call the attempts come one after another:
\* the first when the probe has answered, each later one only out of the
\* backoff sleep that followed a failed attempt; none is made after requestFn
\* has resolved or after a non-retryable error; and requestFn is never
\* invoked more than maxRetries times.
C32_SequentialAttempts ==
    /\ [][\A c \in Calls :
            call'[c].nReq # call[c].nReq
                => /\ call'[c].nReq = call[c].nReq + 1
                   /\ call'[c].pc = "exec"
                   /\ \/ call[c].pc = "probe" /\ call[c].nReq = 0
                      \/ call[c].pc = "sleep" /\ call[c].lastError # NoError]_vars
    /\ [][\A c \in Calls :
            (call[c].pc = "exec" /\ call'[c].pc = "sleep")
                => ~IsClientError(call'[c].lastError)]_vars
    /\ [][\A c \in Calls :
            call[c].pc \in {"done", "rejected"} => call'[c] = call[c]]_vars
    /\ [](\A c \in Calls : call[c].nReq <= config.maxRetries)

\* A call answered at its third attempt.
C32_Witness ==
    /\ call[1].pc = "done"
    /\ call[1].nReq = 3
    /\ call[1].out.success

\* C33: an outcome that makeRequest returns to a caller was produced by a
\* request built from that caller's own inputs: of two overlapping calls with
\* different inputs, neither gets the other's response.
C33_OwnResponse ==
    \A c \in Calls :
        (call[c].pc = "done" /\ call[c].out.success)
            => call[c].out.data.input = call[c].req.input

\* The debounce timer has fired while a re-index was running and changeCount
\* was 5 or more: no timer is pending and the changes are still counted.
MissedWhileIndexing ==
    timers = {} /\ isIndexing /\ changeCount >= maxChangesBeforeReindex

\* C34: when the debounce timer fires while a re-index is running and
\* changeCount >= 5, an automatic re-index for those changes is eventually
\* issued once the running one has completed, with no further file event
\* needed: changeCount returns to 0, unless a file event arms a new timer.
C34_MissedReindexIsIssued ==
    MissedWhileIndexing ~> (changeCount = 0 \/ timers # {})

\* C39: every re-index that starts returns the trigger to idle: isIndexing is
\* reset when the call has succeeded, failed or been cancelled, so that a
\* finished re-index never blocks a later one.
C39_IndexingEnds ==
    /\ isIndexing ~> ~isIndexing
    /\ [][(\E i \in Runs : Completed(i)) => ~isIndexing']_vars
    /\ [][(~isIndexing /\ \E i \in Runs : run[i] = "idle" /\ run'[i] # "idle")
             => \E i \in Runs : Started(i)]_vars

\* A re-index was cancelled, a second one settled and a third has started.
C39_Witness ==
    /\ run[1] = "done"
    /\ run[2] = "done"
    /\ run[3] = "progress"
    /\ isIndexing

\* C35: set on a key that is present only replaces that key's entry: no other
\* key leaves the cache, even when it holds maxSize entries.
C35_OverwriteKeepsOthers ==
    [][(IsSet /\ HasKey(cache, ret'.key))
        => \A i \in 1..Len(cache) :
               cache[i].key # ret'.key => HasKey(cache', cache[i].key)]_vars

\* C36: a response whose envelope reports success: false is returned as a
\* failure after that one attempt: the call is done, with no retry and no
\* backoff sleep, and nothing is written to the cache.
C36_FailureEnvelopeReturned ==
    [][\A c \in Calls :
          (call[c].pc = "exec"
              /\ call'[c].body \in {EnvelopeFail, EnvelopeFailNoError})
              => /\ call'[c].pc = "done"
                 /\ ~call'[c].out.success
                 /\ call'[c].nReq = call[c].nReq
                 /\ cache' = cache]_vars

\* A generateCode call, which has a cache key, was answered at its first
\* attempt by an envelope with success: false, with retries left.
C36_Witness ==
    /\ call[1].pc = "done"
    /\ call[1].body = EnvelopeFail
    /\ call[1].req.cacheKey # NoCacheKey
    /\ call[1].nReq = 1
    /\ config.maxRetries > 1

\* C37: each assistant message of chatHistory has the user message it answers
\* before it in chatHistory, so chatHistory never begins with an assistant
\* message, whatever the interleaving of handleChatMessage and clearChat.
C37_AnswersFollowQuestions ==
    \A j \in DOMAIN chatHistory :
        msgs[chatHistory[j]].role = "assistant"
            => \E i \in 1..(j - 1) :
                   chatHistory[i] = msgs[chatHistory[j]].answers

\* C38: the assistant's message has the note that code changes were applied
\* only if every edit of the response succeeded.
C38_AppliedNoteMeansAllApplied ==
    [][\A h \in Chats :
          (chat[h].pc = "edits" /\ msgs'[chat[h].msg].applied)
              => \A k \in DOMAIN chat[h].results : chat[h].results[k]]_vars

\* C40: provideCompletionItems calls the backend only if debounceMs or more
\* have passed since the last invocation that passed the debounce check; an
\* invocation made sooner does not call the backend and leaves
\* lastRequestTime as it is; so no two invocations that called the backend
\* are less than debounceMs apart.
C40_CompletionDebounce ==
    /\ [][\A p \in Provides :
            (items[p] = NoProvide /\ items'[p] # NoProvide)
                => IF DateNow - lastRequestTime < debounceMs
                   THEN /\ ~items'[p].issued
                        /\ lastRequestTime' = lastRequestTime
                        /\ call' = call /\ requestQueue' = requestQueue
                   ELSE lastRequestTime' = DateNow]_vars
    /\ [](\A p, q \in Provides :
            (p # q /\ items[p].issued /\ items[q].passed /\ items[q].at <= items[p].at)
                => items[p].at - items[q].at >= debounceMs)

\* The first invocation called the backend, the second came 25 ms later and
\* did not, and the third came 50 ms after the first and called the backend.
C40_Witness ==
    /\ items[1].issued
    /\ items[2].done /\ ~items[2].passed
    /\ items[3].issued
    /\ items[3].at - items[1].at = debounceMs
    /\ lastRequestTime = items[3].at
====
